---- MODULE Spec2Model ----
(***************************************************************************)
(* Model of the content script of the Google Calendar Group Manager        *)
(* (src/unnamed/part_001): the CalendarGroupManager engine, the sidebar    *)
(* scan of CalendarDOM, the click/verify visibility control and the        *)
(* message listener, on the single UI thread of the calendar page.         *)
(*                                                                         *)
(* Scheduling.  The page has one thread.  A task (a delivered message, a   *)
(* chrome.storage callback, a timer callback, a host event) runs to        *)
(* completion together with the promise continuations it enqueues.  An     *)
(* await of a promise that is settled without a timer or a callback, as    *)
(* the one of getCalendarElements(false), resumes in that same run; an     *)
(* await of StorageUtils.get or of a scan with forceExpand = true gives    *)
(* the thread away.  cur is the request that holds the thread, suspended   *)
(* the requests that gave it away.                                         *)
(*                                                                         *)
(* Beside the engine.  The reading of a control, the derivation of an id,  *)
(* the scanner's acceptance of a container, the mutation observer, the     *)
(* scroll and section steps of the reveal pass, and on the options page    *)
(* (src/options.js) the retry of sendMessageToContent and the store of     *)
(* groups are each followed in a specification of their own, in which the  *)
(* engine rests.                                                           *)
(***************************************************************************)
EXTENDS Naturals, Sequences, FiniteSets, Bags, TLC

\* ------------------------------------------------------------------ bounds
\* Requests that may wait for a storage read or a reveal pass at one time.
MaxInFlight == 2
\* Pending verification timers above which no new transition is started.
MaxTimers == 1
\* Messages the callers send in a run of the event loop that is followed to
\* its end (LiveSpec); elsewhere they send any number.
MaxRequests == 2
Unlimited == MaxRequests + 1

\* ------------------------------------------------------- the host document
Null == "null"

\* Calendar list items of the sidebar, in document order.
DocOrder == <<"e1", "e2">>
Elems == {DocOrder[i] : i \in 1..Len(DocOrder)}

\* Items inside a labelled section ("My calendars"), inside the first
\* sidebar container, and under an element matching a Google pattern.
InSections == {"e1"}
InSidebar == {"e1", "e2"}
WithGooglePatterns == {"e2"}

\* ---- what getCalendarName and getCalendarId read of an item
\* Text is a sequence of characters.  The characters of the model and what
\* /[^a-zA-Z0-9]/ and toLowerCase make of them.
AlphaNumeric == {"W", "F", "w", "f", "o", "r", "k", "a", "m", "i", "l", "y", "1", "2"}
Characters == AlphaNumeric \cup {" ", "&", "-"}
toLowerCase(c) ==
  CASE c = "W" -> "w"
    [] c = "F" -> "f"
    [] OTHER   -> c

RECURSIVE Join(_)
\* The string of a sequence of characters.
Join(chars) == IF chars = <<>> THEN "" ELSE Head(chars) \o Join(Tail(chars))

\* The attributes getCalendarId tries, in its order.
possibleAttributes ==
  <<"data-calendarid", "data-eventid", "data-calendar-id", "data-id", "id", "data-testid">>
Attributes == {possibleAttributes[i] : i \in 1..Len(possibleAttributes)}

\* getAttribute of a node that carries none of them.
NoAttributes == [a \in Attributes |-> Null]
With(attr, value) == [NoAttributes EXCEPT ![attr] = value]

\* An item: its own attributes, those of its descendants in document order,
\* the name getCalendarName finds, its trimmed textContent and its index
\* among the children of its parent.
Element(e) ==
  CASE e = "e1" -> [attrs |-> With("data-calendarid", "A"), desc |-> <<>>,
                    name |-> <<"W", "o", "r", "k">>,
                    text |-> <<"W", "o", "r", "k">>, index |-> 0]
    [] e = "e2" -> [attrs |-> NoAttributes, desc |-> <<With("data-id", "B")>>,
                    name |-> <<"F", "a", "m", "i", "l", "y">>,
                    text |-> <<"F", "a", "m", "i", "l", "y">>, index |-> 1]
    [] e = "t3" -> [attrs |-> NoAttributes, desc |-> <<NoAttributes>>,
                    name |-> <<"F", "a", "m", "i", "l", "y">>,
                    text |-> <<"F", "a", "m", "i", "l", "y">>, index |-> 1]
    [] OTHER    -> [attrs |-> NoAttributes, desc |-> <<NoAttributes>>,
                    name |-> <<"W", "o", "r", "k">>,
                    text |-> <<"W", "o", "r", "k">>, index |-> 0]

\* name.replace(/[^a-zA-Z0-9]/g, '_').toLowerCase()
baseId(name) ==
  Join([i \in 1..Len(name) |->
          IF name[i] \in AlphaNumeric THEN toLowerCase(name[i]) ELSE "_"])

\* substring(0, 10) of the generated id's text part.
HashLength == 10

\* textContent.replace(/[^a-zA-Z0-9]/g, '').toLowerCase().substring(0, 10)
textHash(textContent) ==
  LET kept == SelectSeq(textContent, LAMBDA c : c \in AlphaNumeric)
      cut  == IF Len(kept) > HashLength THEN SubSeq(kept, 1, HashLength) ELSE kept IN
  Join([i \in 1..Len(cut) |-> toLowerCase(cut[i])])

\* `cal_${baseId}_${textHash}_${index}`
generatedId(el) ==
  "cal_" \o baseId(el.name) \o "_" \o textHash(el.text) \o "_" \o ToString(el.index)

\* element.querySelector(`[${attr}]`) and its getAttribute(attr): the value on
\* the first descendant that carries attr, Null when none carries it.
childWithAttr(el, attr) ==
  LET carrying == SelectSeq(el.desc, LAMBDA n : n[attr] # Null) IN
  IF carrying = <<>> THEN Null ELSE Head(carrying)[attr]

RECURSIVE CalendarId(_, _)
\* The loop of getCalendarId from the i-th attribute on: the item's own value
\* if it is truthy, else that of the first descendant carrying the attribute
\* if it is truthy, else the next attribute; the generated id after the last.
CalendarId(el, i) ==
  IF i > Len(possibleAttributes) THEN generatedId(el)
  ELSE LET attr == possibleAttributes[i] IN
       IF el.attrs[attr] \notin {Null, ""} THEN el.attrs[attr]
       ELSE IF childWithAttr(el, attr) \notin {Null, ""} THEN childWithAttr(el, attr)
       ELSE CalendarId(el, i + 1)

\* CalendarDOM.getCalendarId of item e.
getCalendarId(e) == CalendarId(Element(e), 1)

\* CalendarDOM.getCalendarName of item e.
getCalendarName(e) == Join(Element(e).name)

\* An id that no item of the document carries.
GhostId == "ghost"
AllIds == {getCalendarId(e) : e \in Elems} \cup {GhostId}

\* chrome.storage.sync 'groups': groupId -> calendar ids of the group.
GroupIds == {"g1", "g2"}
UnknownGroup == "gx"
\* A group of an imported settings file that carries no calendars array:
\* handleImportSettings stores whatever object the file holds under 'groups'.
MalformedGroup == "g3"
\* group.calendars of such a group: no array (told apart from every set of ids).
Undefined == {"undefined"}
StoredCalendars(g) ==
  CASE g = "g1"           -> {"A"}
    [] g = MalformedGroup -> Undefined
    [] OTHER              -> {"B", GhostId}

\* --------------------------------------------------------- sequence helpers
RECURSIVE Dedup(_, _)
\* Insertion order of a JavaScript Set: the first occurrence of each element.
Dedup(s, seen) ==
  IF s = <<>> THEN <<>>
  ELSE IF Head(s) \in seen THEN Dedup(Tail(s), seen)
       ELSE <<Head(s)>> \o Dedup(Tail(s), seen \cup {Head(s)})

Range(s) == {s[i] : i \in 1..Len(s)}

\* Document-order list of the rendered items that lie in area.
FoundIn(area, rendered) ==
  SelectSeq(DocOrder, LAMBDA e : e \in rendered /\ e \in area)

\* The candidates the four discovery strategies add, in the order they run.
Candidates(rendered) ==
  FoundIn(InSections, rendered) \o FoundIn(Elems, rendered)
    \o FoundIn(InSidebar, rendered) \o FoundIn(WithGooglePatterns, rendered)

\* Mutant: the candidates are collected in an array instead of a Set.
getCalendarElements_NoSet(rendered) == Candidates(rendered)

\* CalendarDOM.getCalendarElements: union of the strategies in a Set,
\* returned as an array.
getCalendarElements(rendered) == Dedup(Candidates(rendered), {})

\* Mutant: every scan performs the reveal pass and its timed waits.
ScanSuspends_Always(forceExpand) == TRUE

\* Whether a scan gives the thread away before it returns: only the reveal
\* pass (forceExpand) waits on timers and on the mutation observer.
ScanSuspends(forceExpand) == forceExpand

\* ---------------------------------------------- originalCalendarStates (Map)
\* A Map is a set of <<key, value>> pairs with pairwise different keys.
MapHas(m, k) == \E p \in m : p[1] = k
MapGet(m, k) == (CHOOSE p \in m : p[1] = k)[2]
MapSet(m, k, v) == {p \in m : p[1] # k} \cup {<<k, v>>}
MapSize(m) == Cardinality(m)
EmptyMap == {}

\* ------------------------------------------------------------------- state
VARIABLES
  vis,                     \* item -> what isCalendarChecked reads on its control
  present,                 \* items the host currently renders in the tree
  currentActiveGroup,      \* CalendarGroupManager.currentActiveGroup
  originalCalendarStates,  \* CalendarGroupManager.originalCalendarStates
  timers,                  \* pending 200 ms verification callbacks, oldest first
  suspended,               \* requests that gave the thread away, with their position
  cur,                     \* the request that holds the thread, or NoReq
  isInitialized,           \* CalendarGroupManager.isInitialized
  groups,                  \* ids of the groups in chrome.storage.sync
  budget,                  \* messages the callers may still send, or Unlimited
  ladder,                  \* the forceCalendarState call in progress, or NoLadder
  settle,                  \* history: the states the last restore worked towards
  session,                 \* history: the visibilities when the session began
  lastScan                 \* history: the answer of the preceding getCalendars

\* The variables of the engine.
engine == <<vis, present, currentActiveGroup, originalCalendarStates, timers,
            suspended, cur, isInitialized, groups, budget, ladder, settle, session,
            lastScan>>


AllHidden == [e \in Elems |-> FALSE]

NoResp == [kind |-> "none", activeGroup |-> Null, error |-> "", calendars |-> <<>>]

NoEntry == [vis |-> AllHidden, snap |-> EmptyMap, active |-> Null]

\* A request: its position pc (and, during a reveal pass, the position then
\* it goes on from), and history: what the engine held when its transition
\* started (entry), the calls of toggleCalendarVisibility it made (sets),
\* whether the host failed to honour one of its clicks (missed), the Revealer
\* steps it ran (revealer) and the responses it sent (answers).
NoReq == [action |-> "none", groupId |-> Null, pc |-> "idle", then |-> "idle",
          entry |-> NoEntry, resp |-> NoResp, missed |-> FALSE,
          sets |-> <<>>, revealer |-> {}, answers |-> 0]

\* No forceCalendarState is in progress.
NoLadder == [cb |-> Null, visible |-> FALSE, step |-> "none", reached |-> FALSE]

\* The restore last completed, while nothing but verification timers has
\* touched the controls since: the saved states it worked towards.
NoSettle == [valid |-> FALSE, snap |-> EmptyMap]

\* A session runs from an activation in Idle to the next restore.  It is
\* "clean" while every click of the session was honoured by the host and the
\* host changed nothing by itself; pre and acts (activations so far, 2 for
\* two or more) are kept for clean sessions only.
NoSession == [state |-> "none", pre |-> AllHidden, acts |-> 0]
Spoiled == [state |-> "spoiled", pre |-> AllHidden, acts |-> 0]
Spoil(s, cond) == IF cond /\ s.state = "clean" THEN Spoiled ELSE s

\* The answer of the preceding getCalendars, valid while nothing but
\* getCalendars requests has happened since.
NoScan == [valid |-> FALSE, calendars |-> <<>>]

\* The engine on a rendered page before any message: what it holds while a
\* part beside it is followed on its own.
EngineAtRest ==
  /\ vis = AllHidden
  /\ present = Elems
  /\ currentActiveGroup = Null
  /\ originalCalendarStates = EmptyMap
  /\ timers = <<>>
  /\ suspended = EmptyBag
  /\ cur = NoReq
  /\ isInitialized = TRUE
  /\ groups = GroupIds
  /\ budget = Unlimited
  /\ ladder = NoLadder
  /\ settle = NoSettle
  /\ session = NoSession
  /\ lastScan = NoScan

\* ------------------------------------------------- beside the engine: begin
\* The parts of the extension and of the page that the engine does not
\* write: each is followed on its own, with the engine at rest.
VARIABLES
  control,                 \* the control of one calendar item and what was read from it
  album,                   \* a page with two items of one generated id: controls and snapshot
  monitor,                 \* the MutationObserver of monitorForDynamicElements and its timer
  scrolling,               \* the scroll offsets of the page during a reveal pass
  sections,                \* the section toggles of the sidebar during a reveal pass
  candidate,               \* a control proposed to the scanner, its container and the verdict
  subtree,                 \* an accepted item as the host renders it and the ids scans gave it
  isCalendarPage,          \* whether window.location.hostname holds calendar.google.com
  channel,                 \* the call of sendMessageToContent in progress and the tab it talks to
  store                    \* the groups of the options page and the group its modal edits

beside == <<control, album, monitor, scrolling, sections, candidate, subtree,
          isCalendarPage, channel, store>>

vars == <<engine, beside>>

\* The control of an item: whether getCheckboxElement finds one, its checked
\* property (Absent on an element that is no input), its aria-checked and
\* aria-pressed attributes, and what isCalendarChecked (isChecked) and the
\* delayed check of toggleCalendarVisibility (currentState) last read.
NoControl ==
  [found |-> FALSE, checked |-> "absent", ariaChecked |-> "absent",
   ariaPressed |-> "absent", isChecked |-> "unread", currentState |-> "unread"]

\* A page on which the first item of "My calendars" and the first item of
\* "Other calendars" have the same name (t1, t2) and no item carries a native
\* identifier: what its controls read, the snapshot taken of them, what they
\* read when it was taken, and how far the group switch has come.
TwinOrder == <<"t1", "t2", "t3">>
Twins == {TwinOrder[i] : i \in 1..Len(TwinOrder)}
NoAlbum ==
  [vis |-> [e \in Twins |-> FALSE], at |-> [e \in Twins |-> FALSE],
   snap |-> {}, pc |-> "idle"]

\* monitorForDynamicElements: whether its promise is pending or resolved and
\* by what, stableCount, the milliseconds since it began, whether the observer
\* is connected and the timeout still pending, the items added to elements;
\* history: the deliveries so far, those since the last one that added an
\* accepted item, and whether the page changed after the disconnect.
NoMonitor ==
  [pc |-> "idle", by |-> "none", stableCount |-> 0, elapsed |-> 0,
   connected |-> FALSE, timeout |-> FALSE, added |-> {},
   deliveries |-> 0, sinceAccepted |-> 0, unobserved |-> FALSE]

\* The scroll offsets the reveal pass works on: scrollTop of the scrollable
\* calendar list ("list") and of the page around it ("page"), the offset of
\* the page at which the list is aligned with the viewport, initialScrollTop
\* as forceVirtualScrollRendering saved it, the step the pass is at;
\* history: the offsets when the request began.
Scrollers == {"list", "page"}
NoScrolling ==
  [pc |-> "idle", top |-> [c \in Scrollers |-> 0], alignedAt |-> 0,
   initialScrollTop |-> 0, before |-> [c \in Scrollers |-> 0]]

\* The two section toggles of the sidebar during expandCalendarSections: the
\* markup of the 'Other calendars' toggle (whether it is a button, has the
\* English aria-label, lies in the other-calendars drawer, has the English
\* text), aria-expanded of both toggles, the phase of the pass and the
\* selector it is at; history: the clicks of the collapse phase on the
\* 'Other calendars' toggle and the toggles the expand phase clicked.
NoSections ==
  [phase |-> "idle", at |-> 1,
   markup |-> [button |-> TRUE, label |-> TRUE, drawer |-> FALSE, text |-> TRUE],
   expanded |-> [other |-> FALSE, mine |-> FALSE],
   collapseClicks |-> 0, expandClicked |-> {}]

\* A control that a discovery strategy came across: the strategy, the
\* containers findCalendarContainer considers (innermost first, the first
\* being checkbox.parentElement), the container it returned (0: none yet) and
\* what isCalendarItem said of it.
NoCandidate == [strategy |-> "none", chain |-> <<>>, container |-> 0, accepted |-> "unread"]

\* An accepted item as the host renders it (what Element gives of an item),
\* the id the first scan derived for it, the id of the last scan and the
\* number of scans since it was rendered.
NoSubtree ==
  [el |-> [attrs |-> NoAttributes, desc |-> <<>>, name |-> <<>>, text |-> <<>>,
           index |-> 0],
   first |-> "unread", id |-> "unread", scans |-> 0]

\* The content script runs in Google Calendar: the manifest injects it there.
OnCalendarPage == TRUE

\* TabUtils.sendMessageToContent: where the call is, the attempt of its loop,
\* the error of the last failed attempt, whether a content script listens in
\* the tab; history: the messages sent for this call, the re-injections tried
\* and whether one of them failed.
NoChannel ==
  [pc |-> "idle", attempt |-> 1, error |-> "none", listening |-> FALSE,
   sends |-> 0, injections |-> 0, injectFailed |-> FALSE]

\* OptionsManager: this.groups (group id -> name, calendars, createdAt),
\* currentEditingGroupId, and Date.now() as a count of the saves so far.
NoStore == [groups |-> <<>>, currentEditingGroupId |-> Null, now |-> 0]

\* Nothing beside the engine has started.
BesideAtRest ==
  /\ control = NoControl
  /\ album = NoAlbum
  /\ monitor = NoMonitor
  /\ scrolling = NoScrolling
  /\ sections = NoSections
  /\ candidate = NoCandidate
  /\ subtree = NoSubtree
  /\ isCalendarPage = OnCalendarPage
  /\ channel = NoChannel
  /\ store = NoStore

\* What the steps on control leave alone, and the state they start from.
BesideControl == <<engine, album, monitor, scrolling, sections, candidate,
                   subtree, isCalendarPage, channel, store>>
AtRestBesideControl ==
  /\ EngineAtRest
  /\ album = NoAlbum
  /\ monitor = NoMonitor
  /\ scrolling = NoScrolling
  /\ sections = NoSections
  /\ candidate = NoCandidate
  /\ subtree = NoSubtree
  /\ isCalendarPage = OnCalendarPage
  /\ channel = NoChannel
  /\ store = NoStore

\* What the steps on album leave alone, and the state they start from.
BesideAlbum == <<engine, control, monitor, scrolling, sections, candidate,
                 subtree, isCalendarPage, channel, store>>
AtRestBesideAlbum ==
  /\ EngineAtRest
  /\ control = NoControl
  /\ monitor = NoMonitor
  /\ scrolling = NoScrolling
  /\ sections = NoSections
  /\ candidate = NoCandidate
  /\ subtree = NoSubtree
  /\ isCalendarPage = OnCalendarPage
  /\ channel = NoChannel
  /\ store = NoStore

\* What the steps on monitor leave alone, and the state they start from.
BesideMonitor == <<engine, control, album, scrolling, sections, candidate,
                   subtree, isCalendarPage, channel, store>>
AtRestBesideMonitor ==
  /\ EngineAtRest
  /\ control = NoControl
  /\ album = NoAlbum
  /\ scrolling = NoScrolling
  /\ sections = NoSections
  /\ candidate = NoCandidate
  /\ subtree = NoSubtree
  /\ isCalendarPage = OnCalendarPage
  /\ channel = NoChannel
  /\ store = NoStore

\* What the steps on scrolling leave alone, and the state they start from.
BesideScrolling == <<engine, control, album, monitor, sections, candidate,
                     subtree, isCalendarPage, channel, store>>
AtRestBesideScrolling ==
  /\ EngineAtRest
  /\ control = NoControl
  /\ album = NoAlbum
  /\ monitor = NoMonitor
  /\ sections = NoSections
  /\ candidate = NoCandidate
  /\ subtree = NoSubtree
  /\ isCalendarPage = OnCalendarPage
  /\ channel = NoChannel
  /\ store = NoStore

\* What the steps on sections leave alone, and the state they start from.
BesideSections == <<engine, control, album, monitor, scrolling, candidate,
                    subtree, isCalendarPage, channel, store>>
AtRestBesideSections ==
  /\ EngineAtRest
  /\ control = NoControl
  /\ album = NoAlbum
  /\ monitor = NoMonitor
  /\ scrolling = NoScrolling
  /\ candidate = NoCandidate
  /\ subtree = NoSubtree
  /\ isCalendarPage = OnCalendarPage
  /\ channel = NoChannel
  /\ store = NoStore

\* What the steps on candidate leave alone, and the state they start from.
BesideCandidate == <<engine, control, album, monitor, scrolling, sections,
                     subtree, isCalendarPage, channel, store>>
AtRestBesideCandidate ==
  /\ EngineAtRest
  /\ control = NoControl
  /\ album = NoAlbum
  /\ monitor = NoMonitor
  /\ scrolling = NoScrolling
  /\ sections = NoSections
  /\ subtree = NoSubtree
  /\ isCalendarPage = OnCalendarPage
  /\ channel = NoChannel
  /\ store = NoStore

\* What the steps on subtree leave alone, and the state they start from.
BesideSubtree == <<engine, control, album, monitor, scrolling, sections,
                   candidate, isCalendarPage, channel, store>>
AtRestBesideSubtree ==
  /\ EngineAtRest
  /\ control = NoControl
  /\ album = NoAlbum
  /\ monitor = NoMonitor
  /\ scrolling = NoScrolling
  /\ sections = NoSections
  /\ candidate = NoCandidate
  /\ isCalendarPage = OnCalendarPage
  /\ channel = NoChannel
  /\ store = NoStore

\* Everything beside the engine is at rest, isCalendarPage apart.
AtRestButIsCalendarPage ==
  /\ control = NoControl
  /\ album = NoAlbum
  /\ monitor = NoMonitor
  /\ scrolling = NoScrolling
  /\ sections = NoSections
  /\ candidate = NoCandidate
  /\ subtree = NoSubtree
  /\ channel = NoChannel
  /\ store = NoStore

\* What the steps on channel leave alone, and the state they start from.
BesideChannel == <<engine, control, album, monitor, scrolling, sections,
                   candidate, subtree, isCalendarPage, store>>
AtRestBesideChannel ==
  /\ EngineAtRest
  /\ control = NoControl
  /\ album = NoAlbum
  /\ monitor = NoMonitor
  /\ scrolling = NoScrolling
  /\ sections = NoSections
  /\ candidate = NoCandidate
  /\ subtree = NoSubtree
  /\ isCalendarPage = OnCalendarPage
  /\ store = NoStore

\* What the steps on store leave alone, and the state they start from.
BesideStore == <<engine, control, album, monitor, scrolling, sections,
                 candidate, subtree, isCalendarPage, channel>>
AtRestBesideStore ==
  /\ EngineAtRest
  /\ control = NoControl
  /\ album = NoAlbum
  /\ monitor = NoMonitor
  /\ scrolling = NoScrolling
  /\ sections = NoSections
  /\ candidate = NoCandidate
  /\ subtree = NoSubtree
  /\ isCalendarPage = OnCalendarPage
  /\ channel = NoChannel

\* ------------------------------------------------- beside the engine: end

\* waitForCalendarDOM resolves in its first check: the page is not Google
\* Calendar, or some checkbox is rendered.  (calendars.length is undefined
\* there, getCalendarElements being async.)
DomReadyAtOnce == ~isCalendarPage \/ present # {}

\* The engine right after new CalendarGroupManager(): the sidebar is rendered
\* or not yet; the first check of waitForCalendarDOM has run, and where it saw
\* a checkbox the engine is initialized before any message is delivered.
EngineConstructed ==
  /\ vis \in [Elems -> BOOLEAN]
  /\ present \in {{}, Elems}
  /\ currentActiveGroup = Null
  /\ originalCalendarStates = EmptyMap
  /\ timers = <<>>
  /\ suspended = EmptyBag
  /\ cur = NoReq
  /\ isInitialized = DomReadyAtOnce
  /\ ladder = NoLadder

\* The engine in a tab of Google Calendar.
Constructed == BesideAtRest /\ EngineConstructed

\* The groups were all saved by the options page (handleSaveGroup).
Init ==
  /\ Constructed
  /\ groups = GroupIds
  /\ budget = Unlimited
  /\ settle = NoSettle
  /\ session = NoSession
  /\ lastScan = NoScan

\* A settings file with a group without calendars array was imported.
InitImported ==
  /\ Constructed
  /\ groups = {"g1", MalformedGroup}
  /\ budget = Unlimited
  /\ settle = NoSettle
  /\ session = NoSession
  /\ lastScan = NoScan

\* ------------------------------------------------- the visibility controller
\* How the host takes checkbox.click(): it toggles the control, it leaves it
\* as it is, or the call throws.
ClickOutcomes == {"honoured", "ignored", "raised"}

\* How the host takes a forced state change: whether its handlers toggle the
\* control on the synthetic mouse events and on the synthetic key event, and
\* whether the control carries aria-checked, aria-pressed or type checkbox.
HostReactions == [mouse : BOOLEAN, key : BOOLEAN, writable : BOOLEAN]

Flip(v, e) == [v EXCEPT ![e] = ~v[e]]

\* forceCalendarState, method 2: mousedown, mouseup and click are dispatched.
dispatchMouseEvents(v, e, host) == IF host.mouse THEN Flip(v, e) ELSE v

\* forceCalendarState, method 3: keydown of the space bar is dispatched.
dispatchKeyEvent(v, e, host) == IF host.key THEN Flip(v, e) ELSE v

\* forceCalendarState, method 4: the attributes and the property are written.
setDirectly(v, e, visible, host) ==
  IF host.writable THEN [v EXCEPT ![e] = visible] ELSE v

\* Mutant: the forced state change stops after the synthetic mouse events.
forceCalendarState_MouseOnly(v, e, visible, host) == dispatchMouseEvents(v, e, host)

\* CalendarGroupManager.forceCalendarState: the three methods, one after the
\* other, with no reading of the control in between.
forceCalendarState(v, e, visible, host) ==
  setDirectly(dispatchKeyEvent(dispatchMouseEvents(v, e, host), e, host),
              e, visible, host)

\* The click outcome of item e; how gives it for the items a phase clicks.
OutcomeOf(how, e) == IF e \in DOMAIN how THEN how[e] ELSE "honoured"

\* Mutant: a click that throws is not caught.
toggleCalendarVisibility_Uncaught(st, e, visible, how, host) ==
  IF OutcomeOf(how, e) = "raised"
    THEN [st EXCEPT !.threw = TRUE]
    ELSE [st EXCEPT !.vis = IF OutcomeOf(how, e) = "ignored" THEN @ ELSE Flip(@, e),
                    !.timers = Append(@, [cb |-> e, visible |-> visible]),
                    !.sets = Append(@, [cb |-> e, visible |-> visible])]

\* CalendarGroupManager.toggleCalendarVisibility: one click on the control and
\* a verification 200 ms later; a click that throws is followed at once by
\* forceCalendarState.
toggleCalendarVisibility(st, e, visible, how, host) ==
  IF OutcomeOf(how, e) = "raised"
    THEN [st EXCEPT !.vis = forceCalendarState(@, e, visible, host),
                    !.sets = Append(@, [cb |-> e, visible |-> visible])]
    ELSE [st EXCEPT !.vis = IF OutcomeOf(how, e) = "ignored" THEN @ ELSE Flip(@, e),
                    !.timers = Append(@, [cb |-> e, visible |-> visible]),
                    !.sets = Append(@, [cb |-> e, visible |-> visible])]

\* The delayed check of toggleCalendarVisibility.
verifyAfterClick(v, t, host) ==
  IF v[t.cb] # t.visible THEN forceCalendarState(v, t.cb, t.visible, host) ELSE v

\* ------------------------------------------------------ the transition steps
RECURSIVE saveCurrentCalendarStates(_, _, _)
\* forEach of saveCurrentCalendarStates over the scanned items.
saveCurrentCalendarStates(els, v, m) ==
  IF els = <<>> THEN m
  ELSE saveCurrentCalendarStates(Tail(els), v,
         MapSet(m, getCalendarId(Head(els)), v[Head(els)]))

RECURSIVE hideAllCalendars_Inverted(_, _, _, _)
\* Mutant: the checked test of the hide phase is inverted.
hideAllCalendars_Inverted(els, st, how, host) ==
  IF els = <<>> \/ st.threw THEN st
  ELSE LET e == Head(els) IN
       hideAllCalendars_Inverted(Tail(els),
         IF ~st.vis[e] THEN toggleCalendarVisibility(st, e, FALSE, how, host) ELSE st,
         how, host)

RECURSIVE hideAllCalendars(_, _, _, _)
\* forEach of hideAllCalendars: click every item that reads as checked.
hideAllCalendars(els, st, how, host) ==
  IF els = <<>> \/ st.threw THEN st
  ELSE LET e == Head(els) IN
       hideAllCalendars(Tail(els),
         IF st.vis[e] THEN toggleCalendarVisibility(st, e, FALSE, how, host) ELSE st,
         how, host)

RECURSIVE showCalendarsInGroup_Strict(_, _, _, _, _)
\* Mutant: a group with an id that no scanned item carries shows nothing.
showCalendarsInGroup_Strict(els, st, calendarIds, how, host) ==
  IF els = <<>> \/ st.threw THEN st
  ELSE IF calendarIds = Undefined THEN [st EXCEPT !.threw = TRUE]
  ELSE LET e == Head(els) IN
       showCalendarsInGroup_Strict(Tail(els),
         IF /\ getCalendarId(e) \in calendarIds
            /\ ~st.vis[e]
            /\ calendarIds \subseteq {getCalendarId(x) : x \in Elems}
           THEN toggleCalendarVisibility(st, e, TRUE, how, host) ELSE st,
         calendarIds, how, host)

RECURSIVE showCalendarsInGroup_Everything(_, _, _, _, _)
\* Mutant: the show phase does not look at the ids of the group.
showCalendarsInGroup_Everything(els, st, calendarIds, how, host) ==
  IF els = <<>> \/ st.threw THEN st
  ELSE LET e == Head(els) IN
       showCalendarsInGroup_Everything(Tail(els),
         IF ~st.vis[e] THEN toggleCalendarVisibility(st, e, TRUE, how, host) ELSE st,
         calendarIds, how, host)

RECURSIVE showCalendarsInGroup(_, _, _, _, _)
\* forEach of showCalendarsInGroup: click every unchecked item of the group.
\* calendarIds.includes throws at the first item when the group has no array.
showCalendarsInGroup(els, st, calendarIds, how, host) ==
  IF els = <<>> \/ st.threw THEN st
  ELSE IF calendarIds = Undefined THEN [st EXCEPT !.threw = TRUE]
  ELSE LET e == Head(els) IN
       showCalendarsInGroup(Tail(els),
         IF getCalendarId(e) \in calendarIds /\ ~st.vis[e]
           THEN toggleCalendarVisibility(st, e, TRUE, how, host) ELSE st,
         calendarIds, how, host)

RECURSIVE showAllCalendars_ShowAll(_, _, _, _, _)
\* Mutant: every unchecked item is shown, whatever was saved.
showAllCalendars_ShowAll(els, st, m, how, host) ==
  IF els = <<>> \/ st.threw THEN st
  ELSE LET e == Head(els) IN
       showAllCalendars_ShowAll(Tail(els),
         IF ~st.vis[e] THEN toggleCalendarVisibility(st, e, TRUE, how, host) ELSE st,
         m, how, host)

RECURSIVE showAllCalendars_Unsaved(_, _, _, _, _)
\* Mutant: an item without a saved state is taken to have been hidden.
showAllCalendars_Unsaved(els, st, m, how, host) ==
  IF els = <<>> \/ st.threw THEN st
  ELSE LET e  == Head(els)
           id == getCalendarId(e)
           shouldBeVisible == IF MapHas(m, id) THEN MapGet(m, id) ELSE FALSE IN
       showAllCalendars_Unsaved(Tail(els),
         IF shouldBeVisible # st.vis[e]
           THEN toggleCalendarVisibility(st, e, shouldBeVisible, how, host) ELSE st,
         m, how, host)

RECURSIVE showAllCalendars(_, _, _, _, _)
\* forEach of showAllCalendars: click every item that differs from its saved state.
showAllCalendars(els, st, m, how, host) ==
  IF els = <<>> \/ st.threw THEN st
  ELSE LET e  == Head(els)
           id == getCalendarId(e) IN
       showAllCalendars(Tail(els),
         IF MapHas(m, id) /\ MapGet(m, id) # st.vis[e]
           THEN toggleCalendarVisibility(st, e, MapGet(m, id), how, host) ELSE st,
         m, how, host)

\* getAvailableCalendars: the scanned items as {id, name, visible}.
getAvailableCalendars(els, v) ==
  [i \in 1..Len(els) |->
     [id |-> getCalendarId(els[i]), name |-> getCalendarName(els[i]),
      visible |-> v[els[i]]]]

\* The items a phase may click, for which the host's click outcomes are drawn.
HideTargets(els, v) == {e \in Range(els) : v[e]}
ShowTargets(els, v, calendarIds) ==
  IF calendarIds = Undefined THEN {}
  ELSE {e \in Range(els) : getCalendarId(e) \in calendarIds /\ ~v[e]}
RestoreTargets(els, v, m) ==
  {e \in Range(els) : MapHas(m, getCalendarId(e)) /\ MapGet(m, getCalendarId(e)) # v[e]}

\* The host's reactions that matter to a phase: those to forced state changes,
\* when one of its clicks throws.
NoReaction == [mouse |-> FALSE, key |-> FALSE, writable |-> FALSE]
HostsFor(how) ==
  IF \E e \in DOMAIN how : how[e] = "raised" THEN HostReactions ELSE {NoReaction}

\* A click of the phase was not honoured.
Missed(how) == \E e \in DOMAIN how : how[e] # "honoured"

\* ------------------------------------------------------- the message gateway
\* The property activeGroup is not part of the response.
Absent == "absent"

\* The items the current scan returns.
Scanned == getCalendarElements(present)

\* What the engine holds when a transition starts.
Entry == [vis |-> vis, snap |-> originalCalendarStates, active |-> currentActiveGroup]

\* The controls, the pending verifications and the calls of the request so far.
St == [vis |-> vis, timers |-> timers, sets |-> cur.sets, threw |-> FALSE]

\* A message of the popup or of the options page reaches the listener when
\* the thread is free.
Admit == cur = NoReq /\ BagCardinality(suspended) < MaxInFlight /\ budget > 0

\* One message of the callers is delivered.
Deliver == budget' = IF budget = Unlimited THEN budget ELSE budget - 1

NewReq(action, g, pc) == [NoReq EXCEPT !.action = action, !.groupId = g, !.pc = pc]

Suspend(req) == suspended' = suspended (+) SetToBag({req})

\* Mutant: the response callback is never called.
Respond_Never(req, resp) == [req EXCEPT !.pc = "sent"]

\* sendResponse(resp), the last statement of a handler or of its catch block.
Respond(req, resp) ==
  [req EXCEPT !.pc = "sent", !.resp = resp, !.answers = @ + 1]

ErrorResp(message) == [NoResp EXCEPT !.kind = "error", !.error = message]

\* Mutant: every scan asks for the reveal pass.
ForceExpand_Always(action) == TRUE

\* The forceExpand argument of the scans of a handler: true in
\* handleForceRefreshCalendars, false (or left out) everywhere else.
ForceExpand(action) == action = "forceRefreshCalendars"

\* The steps of the Virtualization Revealer: section collapse and expand
\* clicks, scroll sweeps, the mutation observer, container style changes.
RevealerSteps == {"sections", "scroll", "observe", "style"}

\* An await of a scan: the request keeps the thread unless the scan waits,
\* which it does for the reveal pass.
Await(req, forceExpand) ==
  IF ScanSuspends(forceExpand)
    THEN cur' = NoReq /\ Suspend([req EXCEPT !.pc = "reveal", !.then = req.pc])
    ELSE cur' = req /\ UNCHANGED suspended

\* listener, case 'toggleGroup': toggleGroup starts and awaits the storage read.
ReceiveToggleGroup(g) ==
  /\ Admit
  /\ Deliver
  /\ Suspend(NewReq("toggleGroup", g, "storage"))
  /\ lastScan' = NoScan
  /\ UNCHANGED <<isInitialized, vis, present, currentActiveGroup, originalCalendarStates, timers,
                 cur, session, groups, ladder, beside, settle>>

\* listener, case 'showAllCalendars': showAllCalendars starts its scan.
ReceiveShowAllCalendars ==
  /\ Admit
  /\ Deliver
  /\ Len(timers) <= MaxTimers
  /\ LET req == [NewReq("showAllCalendars", Null, "restore") EXCEPT !.entry = Entry] IN
     Await(req, ForceExpand(req.action))
  /\ lastScan' = NoScan
  /\ UNCHANGED <<isInitialized, vis, present, currentActiveGroup, originalCalendarStates, timers,
                 session, groups, ladder, beside, settle>>

\* listener, default case: sendResponse({error: 'Unknown action'}).
ReceiveUnknown ==
  /\ Admit
  /\ Deliver
  /\ cur' = Respond(NewReq("unknown", Null, "idle"), ErrorResp("Unknown action"))
  /\ UNCHANGED <<isInitialized, vis, present, currentActiveGroup, originalCalendarStates, timers,
                 suspended, session, lastScan, groups, ladder, beside, settle>>

\* The waitForCalendarDOM started by init() resolves, at once or after polling.
InitDone ==
  /\ cur = NoReq
  /\ ~isInitialized
  /\ isInitialized' = TRUE
  /\ UNCHANGED <<vis, present, currentActiveGroup, originalCalendarStates, timers,
                 suspended, cur, session, lastScan, groups, budget, ladder, beside, settle>>

\* listener, case 'getCalendars': handleGetCalendars waits for the calendar
\* DOM if the engine is not initialized yet, then scans.
ReceiveGetCalendars ==
  /\ Admit
  /\ Deliver
  /\ LET req == NewReq("getCalendars", Null, "scan") IN
     IF isInitialized \/ DomReadyAtOnce
       THEN /\ isInitialized' = TRUE
            /\ Await(req, ForceExpand(req.action))
       ELSE /\ Suspend([req EXCEPT !.pc = "waitdom"])
            /\ UNCHANGED <<cur, isInitialized>>
  /\ UNCHANGED <<vis, present, currentActiveGroup, originalCalendarStates, timers,
                 session, lastScan, groups, ladder, beside, settle>>

\* handleGetCalendars after the polling of waitForCalendarDOM has ended.
DomReady ==
  /\ cur.pc = "waitdom"
  /\ isInitialized' = TRUE
  /\ Await([cur EXCEPT !.pc = "scan"], ForceExpand(cur.action))
  /\ UNCHANGED <<vis, present, currentActiveGroup, originalCalendarStates, timers,
                 session, lastScan, groups, budget, ladder, beside, settle>>

\* listener, case 'forceRefreshCalendars': the scan is preceded by the reveal pass.
ReceiveForceRefreshCalendars ==
  /\ Admit
  /\ Deliver
  /\ LET req == NewReq("forceRefreshCalendars", Null, "scan") IN
     Await(req, ForceExpand(req.action))
  /\ lastScan' = NoScan
  /\ UNCHANGED <<isInitialized, vis, present, currentActiveGroup, originalCalendarStates, timers,
                 session, groups, ladder, beside, settle>>

\* Mutant: every group id is taken to be stored.
GroupFound_Any(g) == TRUE

\* toggleGroup: groups[groupId] is defined.
GroupFound(g) == g \in groups

\* Mutant: the toggle-off test never matches.
AlreadyActive_Never(active, g) == FALSE

\* toggleGroup: this.currentActiveGroup === groupId.
AlreadyActive(active, g) == active = g

\* Mutant: the states are saved at every activation.
NeedsSnapshot_Always(m) == TRUE

\* toggleGroup: this.originalCalendarStates.size === 0.
NeedsSnapshot(m) == MapSize(m) = 0

\* Mutant: the response echoes the requested group.
ToggleResponse_Echo(req, active) ==
  [NoResp EXCEPT !.kind = "success", !.activeGroup = req.groupId]

\* handleToggleGroup: sendResponse({success: true, activeGroup: this.currentActiveGroup}).
ToggleResponse(req, active) ==
  [NoResp EXCEPT !.kind = "success", !.activeGroup = active]

\* The callback or timer that the suspended request r waits for arrives.
ResumeReq(r) ==
  /\ cur = NoReq
  /\ r \in BagToSet(suspended)
  /\ r.pc = "storage" => Len(timers) <= MaxTimers
  /\ cur' = r
  /\ suspended' = suspended (-) SetToBag({r})
  /\ UNCHANGED <<isInitialized, vis, present, currentActiveGroup, originalCalendarStates, timers,
                 session, lastScan, groups, budget, ladder, beside, settle>>

Resume == \E r \in BagToSet(suspended) : ResumeReq(r)

\* expandAndRevealAllCalendars, monitorForDynamicElements and
\* forceRenderVirtualElements of a scan with forceExpand: sections are
\* collapsed and expanded, containers scrolled and restyled, and the host
\* renders what it will.  The timed waits of the pass are taken as one.
Reveal ==
  /\ cur.pc = "reveal"
  /\ \E rendered \in SUBSET Elems :
       /\ present' = rendered
       /\ session' = Spoil(session, rendered # present)
       /\ settle' = IF rendered # present THEN NoSettle ELSE settle
  /\ cur' = [cur EXCEPT !.pc = cur.then, !.then = "idle", !.revealer = RevealerSteps]
  /\ lastScan' = NoScan
  /\ UNCHANGED <<isInitialized, vis, currentActiveGroup, originalCalendarStates, timers,
                 suspended, groups, budget, ladder, beside>>

\* toggleGroup after the storage read: unknown group, toggle-off, or the
\* start of an activation.
StorageLookup ==
  /\ cur.pc = "storage"
  /\ LET g == cur.groupId
         c == [cur EXCEPT !.entry = Entry] IN
     IF ~GroupFound(g)
       THEN /\ cur' = Respond(c, ErrorResp("Group not found"))
            /\ UNCHANGED <<suspended, session, settle>>
       ELSE IF AlreadyActive(currentActiveGroup, g)
         THEN /\ Await([c EXCEPT !.pc = "restore"], ForceExpand(c.action))
              /\ UNCHANGED <<session, settle>>
         ELSE /\ IF NeedsSnapshot(originalCalendarStates)
                   THEN Await([c EXCEPT !.pc = "save"], ForceExpand(c.action))
                   ELSE Await([c EXCEPT !.pc = "hide"], ForceExpand(c.action))
              /\ session' =
                   IF currentActiveGroup = Null /\ MapSize(originalCalendarStates) = 0
                     THEN [state |-> "clean", pre |-> vis, acts |-> 1]
                     ELSE IF session.state = "clean"
                            THEN [session EXCEPT !.acts = 2] ELSE session
              /\ settle' = NoSettle
  /\ lastScan' = NoScan
  /\ UNCHANGED <<isInitialized, vis, present, currentActiveGroup, originalCalendarStates, timers,
                 groups, budget, ladder, beside>>

\* saveCurrentCalendarStates, then the scan of hideAllCalendars.
SaveStates ==
  /\ cur.pc = "save"
  /\ originalCalendarStates' =
       saveCurrentCalendarStates(Scanned, vis, originalCalendarStates)
  /\ Await([cur EXCEPT !.pc = "hide"], ForceExpand(cur.action))
  /\ UNCHANGED <<isInitialized, vis, present, currentActiveGroup, timers, session, lastScan,
                 groups, budget, ladder, beside, settle>>

\* hideAllCalendars, then the scan of showCalendarsInGroup.
HideAll ==
  /\ cur.pc = "hide"
  /\ \E how \in [HideTargets(Scanned, vis) -> ClickOutcomes] :
     \E host \in HostsFor(how) :
       LET st == hideAllCalendars(Scanned, St, how, host)
           c  == [cur EXCEPT !.missed = @ \/ Missed(how), !.sets = st.sets] IN
       /\ vis' = st.vis
       /\ timers' = st.timers
       /\ IF st.threw
            THEN cur' = Respond(c, ErrorResp("click")) /\ UNCHANGED suspended
            ELSE Await([c EXCEPT !.pc = "show"], ForceExpand(c.action))
       /\ session' = Spoil(session, Missed(how))
  /\ UNCHANGED <<isInitialized, present, currentActiveGroup, originalCalendarStates, lastScan,
                 groups, budget, ladder, beside, settle>>

\* showCalendarsInGroup(group.calendars); a TypeError of calendarIds.includes
\* is caught by handleToggleGroup.
ShowInGroup ==
  /\ cur.pc = "show"
  /\ LET ids == StoredCalendars(cur.groupId) IN
     \E how \in [ShowTargets(Scanned, vis, ids) -> ClickOutcomes] :
     \E host \in HostsFor(how) :
       LET st == showCalendarsInGroup(Scanned, St, ids, how, host)
           c  == [cur EXCEPT !.missed = @ \/ Missed(how), !.sets = st.sets] IN
       /\ vis' = st.vis
       /\ timers' = st.timers
       /\ cur' = IF st.threw
                   THEN Respond(c, ErrorResp("Cannot read properties of undefined"))
                   ELSE [c EXCEPT !.pc = "commit"]
       /\ session' = Spoil(session, Missed(how))
  /\ UNCHANGED <<isInitialized, present, currentActiveGroup, originalCalendarStates, suspended,
                 lastScan, groups, budget, ladder, beside, settle>>

\* toggleGroup, last statement: this.currentActiveGroup = groupId.
Commit ==
  /\ cur.pc = "commit"
  /\ currentActiveGroup' = cur.groupId
  /\ cur' = [cur EXCEPT !.pc = "reply"]
  /\ UNCHANGED <<isInitialized, vis, present, originalCalendarStates, timers, suspended, session,
                 lastScan, groups, budget, ladder, beside, settle>>

\* showAllCalendars after its scan: restore, clear the saved states and the
\* active group.
Restore ==
  /\ cur.pc = "restore"
  /\ \E how \in [RestoreTargets(Scanned, vis, originalCalendarStates) -> ClickOutcomes] :
     \E host \in HostsFor(how) :
       LET st == showAllCalendars(Scanned, St, originalCalendarStates, how, host)
           c  == [cur EXCEPT !.missed = @ \/ Missed(how), !.sets = st.sets] IN
       /\ vis' = st.vis
       /\ timers' = st.timers
       /\ cur' = IF st.threw THEN Respond(c, ErrorResp("click"))
                             ELSE [c EXCEPT !.pc = "reply"]
       /\ originalCalendarStates' = IF st.threw THEN originalCalendarStates ELSE EmptyMap
       /\ currentActiveGroup' = IF st.threw THEN currentActiveGroup ELSE Null
       /\ session' = Spoil(session, Missed(how))
       /\ settle' = IF st.timers # <<>> /\ ~Missed(how) /\ ~st.threw
                      THEN [valid |-> TRUE, snap |-> originalCalendarStates]
                      ELSE NoSettle
  /\ UNCHANGED <<isInitialized, present, suspended, lastScan, groups, budget, ladder, beside>>

\* handleGetCalendars and handleForceRefreshCalendars after the scan.
Scan ==
  /\ cur.pc = "scan"
  /\ cur' = Respond(cur, [NoResp EXCEPT !.kind = "calendars",
                            !.calendars = getAvailableCalendars(Scanned, vis)])
  /\ UNCHANGED <<isInitialized, vis, present, currentActiveGroup, originalCalendarStates, timers,
                 suspended, session, lastScan, groups, budget, ladder, beside, settle>>

\* handleToggleGroup and handleShowAllCalendars: sendResponse.
Reply ==
  /\ cur.pc = "reply"
  /\ cur' = Respond(cur, IF cur.action = "toggleGroup"
                           THEN ToggleResponse(cur, currentActiveGroup)
                           ELSE [NoResp EXCEPT !.kind = "success",
                                               !.activeGroup = Absent])
  /\ UNCHANGED <<isInitialized, vis, present, currentActiveGroup, originalCalendarStates, timers,
                 suspended, session, lastScan, groups, budget, ladder, beside, settle>>

\* The task of the request ends.
Finish ==
  /\ cur.pc = "sent"
  /\ cur' = NoReq
  /\ lastScan' = IF cur.action = "getCalendars"
                   THEN [valid |-> TRUE, calendars |-> cur.resp.calendars]
                   ELSE NoScan
  /\ session' = IF currentActiveGroup = Null THEN NoSession ELSE session
  /\ UNCHANGED <<isInitialized, vis, present, currentActiveGroup, originalCalendarStates, timers,
                 suspended, groups, budget, ladder, beside, settle>>

\* The oldest verification timer fires: the control is read and, if it is not
\* at the target of the click, forceCalendarState runs.
TimerFire ==
  /\ cur = NoReq
  /\ ladder = NoLadder
  /\ timers # <<>>
  /\ LET t == Head(timers) IN
     \E host \in IF vis[t.cb] # t.visible THEN HostReactions ELSE {NoReaction} :
       vis' = verifyAfterClick(vis, t, host)
  /\ timers' = Tail(timers)
  /\ lastScan' = IF vis' # vis THEN NoScan ELSE lastScan
  /\ settle' = IF timers' = <<>> THEN NoSettle ELSE settle
  /\ UNCHANGED <<isInitialized, present, currentActiveGroup, originalCalendarStates, suspended, cur,
                 session, groups, budget, ladder, beside>>

\* The host renders an item or drops it from the tree (virtualized list).
HostRender(e) ==
  /\ cur = NoReq
  /\ present' = IF e \in present THEN present \ {e} ELSE present \cup {e}
  /\ session' = Spoil(session, TRUE)
  /\ lastScan' = NoScan
  /\ settle' = NoSettle
  /\ UNCHANGED <<isInitialized, vis, currentActiveGroup, originalCalendarStates, timers, suspended,
                 cur, groups, budget, ladder, beside>>

\* The user checks or unchecks a calendar in the sidebar.
HostToggle(e) ==
  /\ cur = NoReq
  /\ vis' = [vis EXCEPT ![e] = ~vis[e]]
  /\ session' = Spoil(session, TRUE)
  /\ lastScan' = NoScan
  /\ settle' = NoSettle
  /\ UNCHANGED <<isInitialized, present, currentActiveGroup, originalCalendarStates, timers,
                 suspended, cur, groups, budget, ladder, beside>>

Next ==
  \/ \E g \in groups \cup {UnknownGroup} : ReceiveToggleGroup(g)
  \/ ReceiveShowAllCalendars
  \/ ReceiveUnknown
  \/ InitDone
  \/ ReceiveGetCalendars
  \/ DomReady
  \/ ReceiveForceRefreshCalendars
  \/ Resume
  \/ Reveal
  \/ StorageLookup
  \/ SaveStates
  \/ HideAll
  \/ ShowInGroup
  \/ Commit
  \/ Restore
  \/ Scan
  \/ Reply
  \/ Finish
  \/ TimerFire
  \/ \E e \in Elems : HostRender(e)
  \/ \E e \in Elems : HostToggle(e)

Spec == Init /\ [][Next]_vars

SpecImported == InitImported /\ [][Next]_vars

\* ------------------------------------------------- waitForCalendarDOM's polls
maxWaitTime == 15000
checkInterval == 500

RECURSIVE checkDOM(_, _)
\* checkDOM of waitForCalendarDOM: the time waited when the promise resolves,
\* with hasCheckboxes as every poll finds it.
checkDOM(waitTime, hasCheckboxes) ==
  IF hasCheckboxes \/ waitTime >= maxWaitTime
    THEN waitTime
    ELSE checkDOM(waitTime + checkInterval, hasCheckboxes)

\* ------------------------------------------------------------ the event loop
\* A task that has the thread runs on to its end.
RunTask ==
  \/ DomReady
  \/ Reveal
  \/ StorageLookup
  \/ SaveStates
  \/ HideAll
  \/ ShowInGroup
  \/ Commit
  \/ Restore
  \/ Scan
  \/ Reply
  \/ Finish

\* The engine and its callers on a page that is left alone.
EngineNext ==
  \/ \E g \in groups \cup {UnknownGroup} : ReceiveToggleGroup(g)
  \/ ReceiveShowAllCalendars
  \/ ReceiveUnknown
  \/ InitDone
  \/ ReceiveGetCalendars
  \/ ReceiveForceRefreshCalendars
  \/ Resume
  \/ RunTask
  \/ TimerFire

\* The callers send MaxRequests messages and then no more.
InitLive ==
  /\ Constructed
  /\ groups = {"g1", MalformedGroup}
  /\ budget = MaxRequests
  /\ settle = NoSettle
  /\ session = NoSession
  /\ lastScan = NoScan

\* The event loop serves every queued callback and timer: a task that runs is
\* finished, a verification timer fires, and every storage read, timed wait
\* and poll that a request waits for comes back.
EventLoop ==
  /\ WF_vars(RunTask)
  /\ WF_vars(TimerFire)
  /\ WF_vars(Resume)

LiveSpec == InitLive /\ [][EngineNext]_vars /\ EventLoop

\* ------------------------------------------------------------------ claims
\* The response of the request that holds the thread has just been sent.
AtSent == cur.pc = "sent"
Succeeded == cur.resp.kind = "success"

\* The items of the current scan and their ids.
Discovered == Range(Scanned)
DiscoveredIds == {getCalendarId(e) : e \in Discovered}

\* The request that was answered activated its group, toggled it off, or was
\* a showAllCalendars.
Activated ==
  AtSent /\ cur.action = "toggleGroup" /\ Succeeded /\ cur.entry.active # cur.groupId
ToggledOff ==
  AtSent /\ cur.action = "toggleGroup" /\ Succeeded /\ cur.entry.active = cur.groupId
RestoredAll == AtSent /\ cur.action = "showAllCalendars" /\ Succeeded

\* Every discovered item reads as it did when the session began.
BackAtSessionStart == \A e \in Discovered : vis[e] = session.pre[e]

\* The discovered items that read as visible are those of the selection.
VisibleIsSelection(ids) == \A e \in Discovered : vis[e] <=> getCalendarId(e) \in ids

\* C1. Round trip: when showAllCalendars answers after a session that consisted
\* of one activation from Idle, with every click honoured and no change of the
\* host in between, every discovered item reads as it did immediately before
\* that activation.
C1_RoundTrip ==
  (RestoredAll /\ session.state = "clean" /\ session.acts = 1) => BackAtSessionStart

C1_Witness ==
  /\ RestoredAll /\ session.state = "clean" /\ session.acts = 1
  /\ cur.entry.active = "g1"
  /\ Discovered = Elems
  /\ vis # cur.entry.vis

\* C2. Snapshot stability: when showAllCalendars answers after a session of two
\* or more activations (each for a group other than the active one), every
\* discovered item reads as it did before the first activation of the session.
C2_SnapshotStable ==
  (RestoredAll /\ session.state = "clean" /\ session.acts = 2) => BackAtSessionStart

C2_Witness ==
  /\ RestoredAll /\ session.state = "clean" /\ session.acts = 2
  /\ Discovered = Elems
  /\ vis # cur.entry.vis
  /\ session.pre = [e \in Elems |-> e = "e1"]

\* C3. Toggle semantics: a toggleGroup for the group that is active ends as a
\* showAllCalendars does: no active group, no saved states, activeGroup null in
\* the response, and (clicks honoured, host unchanged) every discovered item
\* back at its value before the activation.
C3_ToggleOff ==
  ToggledOff =>
    /\ currentActiveGroup = Null
    /\ originalCalendarStates = EmptyMap
    /\ session.state = "clean" => BackAtSessionStart

C3_Witness ==
  /\ ToggledOff /\ session.state = "clean" /\ session.acts = 1
  /\ Discovered = Elems
  /\ vis # cur.entry.vis

\* C4. Selection containment: when a successful activation is answered and the
\* host honoured every click of the request, a discovered item reads as visible
\* iff its id is in the stored selection of the group.
C4_SelectionContainment ==
  (Activated /\ ~cur.missed) => VisibleIsSelection(StoredCalendars(cur.groupId))

C4_Witness ==
  /\ Activated /\ ~cur.missed
  /\ cur.entry.active \notin {Null, cur.groupId}
  /\ Discovered = Elems
  /\ vis # cur.entry.vis

\* C5. Unknown-id tolerance: ids that no scanned item carries make no
\* difference.  When the show phase is about to run, it gives for the stored
\* selection what it gives for the selection without the unknown ids, whatever
\* clicks the host ignores; when the restore is about to run, the saved states
\* of ids absent from the scan make no difference either; and a request for a
\* stored group is never answered with an error.
C5_UnknownIdTolerance ==
  /\ cur.pc = "show" =>
       LET ids == StoredCalendars(cur.groupId) IN
       \A how \in [ShowTargets(Scanned, vis, ids) -> ClickOutcomes] :
       \A host \in HostsFor(how) :
         showCalendarsInGroup(Scanned, St, ids, how, host)
           = showCalendarsInGroup(Scanned, St, ids \cap DiscoveredIds, how, host)
  /\ cur.pc = "restore" =>
       LET m == originalCalendarStates IN
       \A how \in [RestoreTargets(Scanned, vis, m) -> ClickOutcomes] :
       \A host \in HostsFor(how) :
         showAllCalendars(Scanned, St, m, how, host)
           = showAllCalendars(Scanned, St, {p \in m : p[1] \in DiscoveredIds}, how, host)
  /\ (AtSent /\ cur.action = "toggleGroup" /\ cur.groupId \in GroupIds) => Succeeded

C5_Witness ==
  /\ Activated
  /\ GhostId \in StoredCalendars(cur.groupId)
  /\ "e2" \in Discovered /\ vis["e2"] /\ ~cur.entry.vis["e2"]

\* C6. GroupNotFound: a toggleGroup for an id that is not stored is answered
\* with the error 'Group not found', and the visibilities, the active group
\* and the saved states are what they were when the request was taken up.
C6_GroupNotFound ==
  (AtSent /\ cur.action = "toggleGroup" /\ cur.groupId \notin GroupIds) =>
    /\ cur.resp.kind = "error" /\ cur.resp.error = "Group not found"
    /\ vis = cur.entry.vis
    /\ currentActiveGroup = cur.entry.active
    /\ originalCalendarStates = cur.entry.snap

C6_Witness ==
  /\ AtSent /\ cur.action = "toggleGroup" /\ cur.groupId = UnknownGroup
  /\ cur.resp.kind = "error"
  /\ currentActiveGroup = "g1"
  /\ originalCalendarStates # EmptyMap

NoDuplicates(s) == \A i, j \in 1..Len(s) : s[i].id = s[j].id => i = j

\* C7. Scan idempotence: a getCalendars that follows a getCalendars, with no
\* change by the host, no other request and no verification timer changing a
\* control in between, returns what the first returned, and no item twice.
C7_ScanIdempotent ==
  (AtSent /\ cur.action = "getCalendars") =>
    /\ NoDuplicates(cur.resp.calendars)
    /\ lastScan.valid => cur.resp.calendars = lastScan.calendars

C7_Witness ==
  /\ AtSent /\ cur.action = "getCalendars"
  /\ lastScan.valid
  /\ Len(cur.resp.calendars) = 2
  /\ cur.resp.calendars[1].visible /\ ~cur.resp.calendars[2].visible

\* C8. Handler idempotence under retry, as claimed: a second delivery of the
\* request that was processed last leaves the postcondition of one delivery:
\* after toggleGroup(g) the engine is GroupActive(g) with the selection
\* visible, after showAllCalendars it is Idle with no saved states, and
\* getCalendars returns what it returned.
C8_RetryIdempotent ==
  AtSent =>
    /\ (cur.action = "toggleGroup" /\ Succeeded /\ cur.entry.active = cur.groupId) =>
         /\ currentActiveGroup = cur.groupId
         /\ ~cur.missed => VisibleIsSelection(StoredCalendars(cur.groupId))
    /\ (cur.action = "showAllCalendars" /\ cur.entry.active = Null) =>
         /\ currentActiveGroup = Null
         /\ originalCalendarStates = EmptyMap
         /\ vis = cur.entry.vis
    /\ (cur.action = "getCalendars" /\ lastScan.valid) =>
         cur.resp.calendars = lastScan.calendars

\* C9. activateGroup response: a successful answer to toggleGroup(g) carries
\* activeGroup = g when the request activated g and null when it toggled g
\* off, also when requests for other groups are waiting.
C9_ResponseActiveGroup ==
  (AtSent /\ cur.action = "toggleGroup") =>
    /\ cur.resp.kind \in {"success", "error"}
    /\ Succeeded =>
         cur.resp.activeGroup = IF cur.entry.active = cur.groupId THEN Null
                                ELSE cur.groupId

C9_Witness ==
  /\ Activated
  /\ cur.resp.activeGroup = cur.groupId
  /\ \E r \in BagToSet(suspended) :
       r.action = "toggleGroup" /\ r.groupId \in GroupIds \ {cur.groupId}

\* The positions between the start of a transition and its answer.
InTransition(r) ==
  (IF r.pc = "reveal" THEN r.then ELSE r.pc)
    \in {"save", "hide", "show", "commit", "restore", "reply"}

Pending == cur # NoReq \/ suspended # EmptyBag

\* C11. Every request gets exactly one response: when messages are pending
\* (running, or waiting for the storage read, the DOM polls or the reveal
\* pass) the engine comes to the point where none is; a request leaves the
\* thread only to wait or after its response was sent, and is never replaced
\* by another; a response is sent once, as success, calendar list or {error}
\* (an exception in a handler becomes an {error} response); and the DOM polls
\* of getCalendars end when they have waited maxWaitTime at the latest.
C11_ExactlyOneResponse ==
  /\ Pending ~> ~Pending
  /\ [][cur # NoReq /\ cur' # cur =>
          \/ /\ cur'.action = cur.action /\ cur'.groupId = cur.groupId
             /\ cur'.answers >= cur.answers
          \/ /\ cur' = NoReq
             /\ \/ AtSent
                \/ BagCardinality(suspended') = BagCardinality(suspended) + 1]_vars
  /\ [](AtSent => cur.answers = 1 /\ cur.resp.kind \in {"success", "calendars", "error"})
  /\ [](~AtSent => cur.answers = 0)
  /\ [](\A r \in BagToSet(suspended) : r.answers = 0)
  /\ [](\A b \in BOOLEAN : checkDOM(0, b) <= maxWaitTime)

C11_Witness ==
  /\ AtSent /\ cur.action = "toggleGroup" /\ cur.groupId = MalformedGroup
  /\ cur.resp.kind = "error" /\ cur.resp.error # "Group not found"
  /\ suspended # EmptyBag

\* The requests in the engine: the one on the thread and the waiting ones.
Requests == (IF cur = NoReq THEN {} ELSE {cur}) \cup BagToSet(suspended)

\* C12. The Virtualization Revealer runs only for forceRefreshCalendars: a
\* request that is in the reveal pass, or that has executed any Revealer step
\* (section clicks, scroll sweeps, mutation observation, style changes), is a
\* forceRefreshCalendars request; getCalendars, toggleGroup and
\* showAllCalendars are answered without having executed one, and a
\* forceRefreshCalendars answered with a list has executed the whole pass.
C12_RevealerOnlyOnForceRefresh ==
  /\ \A r \in Requests :
       (r.pc = "reveal" \/ r.revealer # {}) => r.action = "forceRefreshCalendars"
  /\ (AtSent /\ cur.action # "forceRefreshCalendars") => cur.revealer = {}
  /\ (AtSent /\ cur.action = "forceRefreshCalendars" /\ cur.resp.kind = "calendars")
       => cur.revealer = RevealerSteps

C12_Witness ==
  /\ AtSent /\ cur.action = "forceRefreshCalendars"
  /\ cur.revealer = RevealerSteps
  /\ currentActiveGroup # Null
  /\ \E r \in BagToSet(suspended) : r.action = "toggleGroup"

\* No request is being processed: none holds the thread and none waits.
Quiet == cur = NoReq /\ suspended = EmptyBag

\* C13. Snapshot lifetime: whenever no request is being processed, a null
\* active group implies an empty snapshot, after any sequence of toggleGroup
\* and showAllCalendars requests, those answered with {error} included.
C13_SnapshotLifetime ==
  (Quiet /\ currentActiveGroup = Null) => originalCalendarStates = EmptyMap

\* The answered request was a toggleGroup that found another group active.
SwitchAnswered ==
  /\ AtSent /\ cur.action = "toggleGroup" /\ Succeeded
  /\ cur.entry.active \in GroupIds \ {cur.groupId}

\* C14. No snapshot recapture on switch: a toggleGroup(g) processed while
\* another group is active leaves the snapshot as it was before the request,
\* whatever the snapshot holds, the empty snapshot of a first activation that
\* discovered nothing included.
C14_NoRecaptureOnSwitch ==
  SwitchAnswered => originalCalendarStates = cur.entry.snap

\* The last pending verification fires after a restore that has settled:
\* all clicks of the restore were honoured, and neither the host nor another
\* transition has acted since.
LastTimerAfterRestore == settle.valid /\ timers # <<>> /\ timers' = <<>>

\* C15. A stale verification never overrides a later transition: when the
\* pending verification timers have all fired after a completed restore, every
\* discovered item that has a snapshot entry still reads as its snapshot value.
C15_StaleVerification ==
  [][LastTimerAfterRestore =>
       \A e \in Discovered :
         MapHas(settle.snap, getCalendarId(e))
           => vis'[e] = MapGet(settle.snap, getCalendarId(e))]_vars

\* A toggleGroup request has just been answered with {error}.
ToggleFailed == AtSent /\ cur.action = "toggleGroup" /\ cur.resp.kind = "error"

\* C16. State unchanged on error: when a toggleGroup is answered with {error},
\* for an unknown group or for a stored group without a calendars array, the
\* visibility of every item, the snapshot and the active group are what they
\* were before the request, and the request has set no item.
C16_StateUnchangedOnError ==
  ToggleFailed =>
    /\ vis = cur.entry.vis
    /\ originalCalendarStates = cur.entry.snap
    /\ currentActiveGroup = cur.entry.active
    /\ cur.sets = <<>>

\* The calls of toggleCalendarVisibility made in the step.
NewSets == SubSeq(cur'.sets, Len(cur.sets) + 1, Len(cur'.sets))

\* The request on the thread is an activation that has started and has not
\* reached its last statement.
Activating ==
  /\ cur.action = "toggleGroup" /\ cur.entry.active # cur.groupId
  /\ cur.pc \in {"save", "hide", "show", "commit"}

\* C17. Activation step order: the snapshot is captured before any item is
\* set and holds what the items read then; the hide phase sets to hidden only
\* items that read as visible; every hide is issued before any show; the show
\* phase sets to visible only items of the group that read as hidden; and
\* the active group becomes g only in the last statement, after the show phase.
C17_ActivationOrder ==
  /\ [](cur.pc \in {"storage", "save"} => cur.sets = <<>>)
  /\ [][cur.pc = "save" =>
          /\ cur'.sets = <<>> /\ vis' = vis
          /\ \A e \in Discovered :
               /\ MapHas(originalCalendarStates', getCalendarId(e))
               /\ MapGet(originalCalendarStates', getCalendarId(e)) = vis[e]]_vars
  /\ [][cur.pc = "hide" =>
          \A i \in DOMAIN NewSets : ~NewSets[i].visible /\ vis[NewSets[i].cb]]_vars
  /\ [][cur.pc = "show" =>
          \A i \in DOMAIN NewSets :
            /\ NewSets[i].visible /\ ~vis[NewSets[i].cb]
            /\ getCalendarId(NewSets[i].cb) \in StoredCalendars(cur.groupId)]_vars
  /\ [](cur.action = "toggleGroup" /\ cur.entry.active # cur.groupId =>
          \A i, j \in DOMAIN cur.sets :
            (i < j /\ cur.sets[i].visible) => cur.sets[j].visible)
  /\ [](Activating => currentActiveGroup = cur.entry.active)
  /\ [][currentActiveGroup' \notin {currentActiveGroup, Null} =>
          cur.pc = "commit" /\ currentActiveGroup' = cur.groupId]_vars

C17_Witness ==
  /\ Activated /\ cur.entry.active = Null
  /\ currentActiveGroup = cur.groupId
  /\ MapSize(originalCalendarStates) > 0
  /\ \E i, j \in DOMAIN cur.sets : ~cur.sets[i].visible /\ cur.sets[j].visible

\* The items set in the step.
NewlySet == {NewSets[i].cb : i \in DOMAIN NewSets}

\* C18. Restore write set: showAllCalendars sets an item only if it is
\* discovered and has a saved state that differs from what it reads, and sets
\* it to the saved state; every other item keeps its visibility, so with an
\* empty snapshot nothing changes; afterwards the snapshot is empty and the
\* active group is null, whether or not the sets converged.
C18_RestoreWriteSet ==
  [][cur.pc = "restore" =>
       /\ \A i \in DOMAIN NewSets :
            LET e  == NewSets[i].cb
                id == getCalendarId(e) IN
            /\ e \in Discovered
            /\ MapHas(originalCalendarStates, id)
            /\ MapGet(originalCalendarStates, id) = NewSets[i].visible
            /\ NewSets[i].visible # vis[e]
       /\ \A e \in Elems \ NewlySet : vis'[e] = vis[e]
       /\ originalCalendarStates = EmptyMap => vis' = vis /\ timers' = timers
       /\ originalCalendarStates' = EmptyMap
       /\ currentActiveGroup' = Null]_vars

C18_Witness ==
  /\ RestoredAll /\ cur.missed
  /\ cur.sets # <<>>
  /\ \E e \in Discovered : \A i \in DOMAIN cur.sets : cur.sets[i].cb # e
  /\ cur.entry.snap # EmptyMap
  /\ originalCalendarStates = EmptyMap /\ currentActiveGroup = Null

\* The request on the thread has set item e to v.
HasSet(e, v) == \E i \in DOMAIN cur.sets : cur.sets[i] = [cb |-> e, visible |-> v]

\* A transition request (not one for an unknown group) has been answered
\* after at least one of its clicks was ignored by the host or raised.
AnsweredDespiteMiss ==
  /\ AtSent /\ cur.missed
  /\ cur.action \in {"toggleGroup", "showAllCalendars"}

\* C19. ConvergenceFailure is non-fatal: when a click of a toggleGroup or
\* showAllCalendars was ignored or raised (whatever the forced state change
\* after a raised click achieved), the request has still set every other item
\* that needed it, has completed its state change (the group is active, or
\* the engine is idle with the snapshot cleared) and is answered with
\* success, not with {error}.
C19_ConvergenceFailureNonFatal ==
  AnsweredDespiteMiss =>
    /\ Succeeded
    /\ (cur.action = "toggleGroup" /\ cur.entry.active # cur.groupId) =>
         /\ currentActiveGroup = cur.groupId
         /\ \A e \in Discovered :
              /\ cur.entry.vis[e] => HasSet(e, FALSE)
              /\ getCalendarId(e) \in StoredCalendars(cur.groupId)
                   => HasSet(e, TRUE) \/ vis[e]
    /\ (cur.action = "showAllCalendars" \/ cur.entry.active = cur.groupId) =>
         /\ currentActiveGroup = Null /\ originalCalendarStates = EmptyMap
         /\ \A e \in Discovered :
              LET id == getCalendarId(e) IN
              (MapHas(cur.entry.snap, id) /\ MapGet(cur.entry.snap, id) # cur.entry.vis[e])
                => HasSet(e, MapGet(cur.entry.snap, id))

C19_Witness ==
  /\ Activated /\ cur.missed
  /\ \E i, j \in DOMAIN cur.sets :
       /\ i < j
       /\ vis[cur.sets[i].cb] # cur.sets[i].visible
       /\ cur.sets[i].cb # cur.sets[j].cb
       /\ \A k \in DOMAIN timers : timers[k].cb # cur.sets[i].cb

\* ------------------------------------------- forceCalendarState step by step
\* The visibility controller alone, with the methods of forceCalendarState
\* as single steps: ladder holds the control, the target, the method that
\* runs next, and whether a method that has run left the control at the target.
LadderOthers ==
  <<isInitialized, present, currentActiveGroup, originalCalendarStates, suspended, cur,
    groups, budget, settle, session, lastScan, beside>>

InitLadder ==
  /\ Constructed
  /\ present = Elems
  /\ groups = GroupIds
  /\ budget = Unlimited
  /\ settle = NoSettle
  /\ session = NoSession
  /\ lastScan = NoScan

StartLadder(e, visible) ==
  ladder' = [cb |-> e, visible |-> visible, step |-> "mouse", reached |-> FALSE]

\* toggleCalendarVisibility(e, visible), called for a control that does not
\* read as visible: the click, then the timer or, if the click throws, the
\* forced state change.
Set(e, visible, how) ==
  /\ ladder = NoLadder
  /\ Len(timers) <= MaxTimers
  /\ vis[e] # visible
  /\ IF how = "raised"
       THEN StartLadder(e, visible) /\ UNCHANGED <<vis, timers>>
       ELSE /\ vis' = IF how = "ignored" THEN vis ELSE Flip(vis, e)
            /\ timers' = Append(timers, [cb |-> e, visible |-> visible])
            /\ UNCHANGED ladder
  /\ UNCHANGED LadderOthers

\* The setTimeout callback of toggleCalendarVisibility: the control is read
\* and forceCalendarState is called if it is not at the target.
Verify ==
  /\ ladder = NoLadder
  /\ timers # <<>>
  /\ LET t == Head(timers) IN
     IF vis[t.cb] # t.visible THEN StartLadder(t.cb, t.visible) ELSE UNCHANGED ladder
  /\ timers' = Tail(timers)
  /\ UNCHANGED vis
  /\ UNCHANGED LadderOthers

\* The control reads as the target of the call.
AtTarget(v) == v[ladder.cb] = ladder.visible

\* forceCalendarState, method 2.
StepMouse ==
  /\ ladder.step = "mouse"
  /\ \E host \in HostReactions : vis' = dispatchMouseEvents(vis, ladder.cb, host)
  /\ ladder' = [ladder EXCEPT !.step = "key", !.reached = AtTarget(vis')]
  /\ UNCHANGED timers
  /\ UNCHANGED LadderOthers

\* forceCalendarState, method 3.
StepKey ==
  /\ ladder.step = "key"
  /\ \E host \in HostReactions : vis' = dispatchKeyEvent(vis, ladder.cb, host)
  /\ ladder' = [ladder EXCEPT !.step = "write", !.reached = @ \/ AtTarget(vis')]
  /\ UNCHANGED timers
  /\ UNCHANGED LadderOthers

\* forceCalendarState, method 4, and the return.
StepWrite ==
  /\ ladder.step = "write"
  /\ \E host \in HostReactions :
       vis' = setDirectly(vis, ladder.cb, ladder.visible, host)
  /\ ladder' = NoLadder
  /\ UNCHANGED timers
  /\ UNCHANGED LadderOthers

LadderNext ==
  \/ \E e \in Elems, visible \in BOOLEAN, how \in ClickOutcomes : Set(e, visible, how)
  \/ Verify
  \/ StepMouse
  \/ StepKey
  \/ StepWrite

LadderSpec == InitLadder /\ [][LadderNext]_vars

\* A method of forceCalendarState other than the first is executed.
LaterStep == ladder.step \in {"key", "write"} /\ ladder' # ladder

\* C20. The fallback ladder stops at first success: after the click has not
\* converged, forceCalendarState tries the mouse events, then the key event,
\* then the direct writes, and a later method is executed only while the
\* control does not read as the target: never after an earlier method has
\* brought it there.
C20_LadderStopsAtSuccess ==
  [][LaterStep => ~ladder.reached /\ ~AtTarget(vis)]_vars

\* ------------------------------------------------- reading a control's state
\* What the host can render as the control of an item.  The checked property
\* is true or false on an input and undefined (Absent) on any other element;
\* getAttribute yields null (Absent) for a missing attribute.
Indicators ==
  [found : BOOLEAN, checked : {Absent, "true", "false"},
   ariaChecked : {Absent, "true", "false", "mixed"},
   ariaPressed : {Absent, "true", "false"}]

Unread(c) ==
  [found |-> c.found, checked |-> c.checked, ariaChecked |-> c.ariaChecked,
   ariaPressed |-> c.ariaPressed, isChecked |-> "unread", currentState |-> "unread"]

Str(b) == IF b THEN "true" ELSE "false"

\* isCalendarChecked without the aria-pressed disjunct.
isCalendarChecked_NoPressed(c) ==
  IF ~c.found THEN FALSE ELSE c.ariaChecked = "true" \/ c.checked = "true"

\* isCalendarChecked(calendarElement): false without a control, else
\* ariaChecked === 'true' || checked === true || ariaPressed === 'true'.
isCalendarChecked(c) ==
  IF ~c.found
    THEN FALSE
    ELSE c.ariaChecked = "true" \/ c.checked = "true" \/ c.ariaPressed = "true"

\* The host renders the control anew; what was read before is stale.
HostRenders ==
  /\ \E c \in Indicators : control' = Unread(c)
  /\ control' # control
  /\ UNCHANGED BesideControl

\* isCalendarChecked is called on the item (scan, snapshot, activation).
ReadChecked ==
  /\ control.isChecked = "unread"
  /\ control' = [control EXCEPT !.isChecked = Str(isCalendarChecked(control))]
  /\ UNCHANGED BesideControl

\* The delayed check of toggleCalendarVisibility reads the control it holds.
ReadCurrentState ==
  /\ control.found
  /\ control.currentState = "unread"
  /\ control' = [control EXCEPT !.currentState =
                   Str(control.ariaChecked = "true" \/ control.checked = "true"
                       \/ control.ariaPressed = "true")]
  /\ UNCHANGED BesideControl

InitControl ==
  /\ AtRestBesideControl
  /\ control \in {Unread(c) : c \in Indicators}

ControlNext == HostRenders \/ ReadChecked \/ ReadCurrentState

ControlSpec == InitControl /\ [][ControlNext]_vars

\* The first indicator that is present, in the order checked property,
\* aria-checked, aria-pressed, reads as true.
FirstPresent(c) ==
  IF c.checked # Absent THEN c.checked = "true"
  ELSE IF c.ariaChecked # Absent THEN c.ariaChecked = "true"
  ELSE c.ariaPressed = "true"

\* C21 as stated: what is read from a control is the value of the first
\* indicator present, in the order checked property, aria-checked,
\* aria-pressed, so that a checked property of false with aria-pressed 'true'
\* reads as not visible.
C21_FirstPresentWins ==
  (control.found /\ control.isChecked # "unread")
    => ((control.isChecked = "true") <=> FirstPresent(control))

\* C21 as amended: an item reads as visible exactly when it has a control of
\* which at least one of aria-checked, the checked property and aria-pressed
\* is true, whatever the other two say; the delayed check of a toggle reads
\* the same from the same control.
C21_AnyIndicatorWins ==
  LET trues == {control.checked, control.ariaChecked, control.ariaPressed} IN
  /\ control.isChecked # "unread"
       => ((control.isChecked = "true") <=> (control.found /\ "true" \in trues))
  /\ (control.isChecked # "unread" /\ control.currentState # "unread")
       => control.isChecked = control.currentState

\* A checked property of false beside aria-pressed 'true' was read as visible.
C21_Witness ==
  /\ control.found /\ control.checked = "false" /\ control.ariaPressed = "true"
  /\ control.isChecked = "true" /\ control.currentState = "true"

\* ------------------------------------------- the snapshot of a page of twins
\* The user clicks the control of an item, before a group is activated or
\* while one is active.
UserToggles(e) ==
  /\ album.pc \in {"idle", "active"}
  /\ album' = [album EXCEPT !.vis = Flip(@, e)]
  /\ UNCHANGED BesideAlbum

\* saveCurrentCalendarStates at the activation of a group.
Capture ==
  /\ album.pc = "idle"
  /\ album' = [album EXCEPT
                 !.snap = saveCurrentCalendarStates(TwinOrder, album.vis, EmptyMap),
                 !.at = album.vis, !.pc = "captured"]
  /\ UNCHANGED BesideAlbum

\* hideAllCalendars of the activation; every click is honoured.
HideTwins ==
  /\ album.pc = "captured"
  /\ LET st == [vis |-> album.vis, timers |-> <<>>, sets |-> <<>>, threw |-> FALSE] IN
     album' = [album EXCEPT
                 !.vis = hideAllCalendars(TwinOrder, st, <<>>, NoReaction).vis,
                 !.pc = "active"]
  /\ UNCHANGED BesideAlbum

\* showAllCalendars: every item is brought to its saved state and the
\* snapshot is cleared; every click is honoured.
RestoreTwins ==
  /\ album.pc = "active"
  /\ LET st == [vis |-> album.vis, timers |-> <<>>, sets |-> <<>>, threw |-> FALSE] IN
     album' = [album EXCEPT
                 !.vis = showAllCalendars(TwinOrder, st, album.snap, <<>>, NoReaction).vis,
                 !.snap = EmptyMap, !.pc = "restored"]
  /\ UNCHANGED BesideAlbum

\* The session is over; the next one begins with the page as it is.
NextSession ==
  /\ album.pc = "restored"
  /\ album' = [album EXCEPT !.pc = "idle"]
  /\ UNCHANGED BesideAlbum

InitAlbum ==
  /\ AtRestBesideAlbum
  /\ album \in {[NoAlbum EXCEPT !.vis = v, !.at = v] : v \in [Twins -> BOOLEAN]}

AlbumNext ==
  \/ \E e \in Twins : UserToggles(e)
  \/ Capture
  \/ HideTwins
  \/ RestoreTwins
  \/ NextSession

AlbumSpec == InitAlbum /\ [][AlbumNext]_vars

\* C22: right after the snapshot is captured, it maps the id of every
\* discovered item to the visibility this item had at capture time, also when
\* two distinct discovered items derive the same id.
C22_SnapshotFaithful ==
  album.pc = "captured"
    => \A e \in Twins : /\ MapHas(album.snap, getCalendarId(e))
                        /\ MapGet(album.snap, getCalendarId(e)) = album.at[e]

\* ------------------------------------------------ monitorForDynamicElements
\* `if (stableCount >= 5)` and `setTimeout(..., 3000)`.
StableIterations == 5
MonitorTimeout == 3000

\* The clock of the model advances by ClockStep milliseconds; a monitor is
\* followed over at most MaxDeliveries observer callbacks.
ClockStep == 1000
MaxDeliveries == 7

\* Items the host may render while the observer is connected.
Dynamic == {"d1", "d2"}

\* Mutant: stableCount is never reset.
stableAfter_NoReset(stableCount, hasChanges) == stableCount + 1

\* `if (hasChanges) { stableCount = 0 } else { stableCount++ }`
stableAfter(stableCount, hasChanges) == IF hasChanges THEN 0 ELSE stableCount + 1

\* new Promise(...): the observer is connected and the timeout is set.
StartMonitor ==
  /\ monitor.pc \in {"idle", "resolved"}
  /\ monitor' = [NoMonitor EXCEPT !.pc = "observing", !.connected = TRUE,
                                  !.timeout = TRUE]
  /\ UNCHANGED BesideMonitor

\* The observer's callback runs on a batch of mutations whose added nodes
\* hold the accepted items `accepted` (none, for mutations elsewhere).
Delivery(accepted) ==
  /\ monitor.connected
  /\ monitor.deliveries < MaxDeliveries
  /\ LET hasChanges == accepted # {}
         count == stableAfter(monitor.stableCount, hasChanges)
         stop == count >= StableIterations IN
     monitor' = [monitor EXCEPT
                   !.added = @ \cup accepted,
                   !.stableCount = count,
                   !.deliveries = @ + 1,
                   !.sinceAccepted = IF hasChanges THEN 0 ELSE @ + 1,
                   !.connected = ~stop,
                   !.pc = IF stop THEN "resolved" ELSE @,
                   !.by = IF stop THEN "count" ELSE @]
  /\ UNCHANGED BesideMonitor

\* Time passes, up to the moment the timeout is due.
Advance ==
  /\ monitor.timeout
  /\ monitor.elapsed < MonitorTimeout
  /\ monitor' = [monitor EXCEPT !.elapsed =
                   IF @ + ClockStep > MonitorTimeout THEN MonitorTimeout ELSE @ + ClockStep]
  /\ UNCHANGED BesideMonitor

\* The callback of setTimeout: observer.disconnect(); resolve().
TimeoutFires ==
  /\ monitor.timeout
  /\ monitor.elapsed = MonitorTimeout
  /\ monitor' = [monitor EXCEPT
                   !.timeout = FALSE, !.connected = FALSE, !.pc = "resolved",
                   !.by = IF monitor.pc = "resolved" THEN @ ELSE "timeout"]
  /\ UNCHANGED BesideMonitor

\* The page changes while no observer is connected: no callback runs.
Unobserved ==
  /\ monitor.pc = "resolved"
  /\ ~monitor.connected
  /\ ~monitor.unobserved
  /\ monitor' = [monitor EXCEPT !.unobserved = TRUE]
  /\ UNCHANGED BesideMonitor

InitMonitor ==
  /\ AtRestBesideMonitor
  /\ monitor = NoMonitor

MonitorNext ==
  \/ StartMonitor
  \/ \E accepted \in SUBSET Dynamic : Delivery(accepted)
  \/ Advance
  \/ TimeoutFires
  \/ Unobserved

\* Time passes and a timeout that is due fires.
Timers == WF_vars(Advance) /\ WF_vars(TimeoutFires)

MonitorSpec == InitMonitor /\ [][MonitorNext]_vars /\ Timers

\* C23: monitorForDynamicElements always resolves, at the earlier of 5
\* consecutive observer deliveries that add no accepted item (the count
\* restarts at 0 when one is added) and the 3000 ms timeout; without any
\* mutation it resolves at the timeout; once resolved the observer is
\* disconnected and no further item is added.
C23_MonitorBounded ==
  /\ (monitor.pc = "observing") ~> (monitor.pc = "resolved")
  /\ [](monitor.pc = "observing"
          => /\ monitor.connected /\ monitor.timeout
             /\ monitor.stableCount < StableIterations
             /\ monitor.stableCount = monitor.sinceAccepted)
  /\ [](monitor.by = "count"
          => /\ monitor.sinceAccepted = StableIterations
             /\ monitor.elapsed <= MonitorTimeout)
  /\ [](monitor.by = "timeout"
          => /\ monitor.elapsed = MonitorTimeout
             /\ monitor.sinceAccepted < StableIterations)
  /\ [](monitor.pc = "resolved" => ~monitor.connected)
  /\ [][(monitor.pc = "resolved" /\ monitor'.pc = "resolved")
          => monitor'.added = monitor.added]_vars

\* A monitor resolved at the timeout without a single delivery, and the page
\* changed afterwards.
C23_Witness ==
  /\ monitor.pc = "resolved" /\ monitor.by = "timeout"
  /\ monitor.deliveries = 0 /\ monitor.unobserved

\* ------------------------------------------- scroll offsets of a reveal pass
\* Offsets run from 0 (top) to MaxOffset (bottom, scrollHeight - clientHeight).
MaxOffset == 2
Offsets == 0..MaxOffset

\* handleForceRefreshCalendars begins; forceVirtualScrollRendering reads
\* initialScrollTop of the list.
BeginSweep ==
  /\ scrolling.pc = "idle"
  /\ scrolling' = [scrolling EXCEPT !.pc = "rapid", !.before = scrolling.top,
                                    !.initialScrollTop = scrolling.top["list"]]
  /\ UNCHANGED BesideScrolling

\* rapidScrollThrough: down to scrollHeight, then up to the top.
rapidScrollThrough ==
  /\ scrolling.pc = "rapid"
  /\ scrolling' = [scrolling EXCEPT !.pc = "positions", !.top["list"] = 0]
  /\ UNCHANGED BesideScrolling

\* scrollToSpecificPositions: the last position set is scrollHeight.
scrollToSpecificPositions ==
  /\ scrolling.pc = "positions"
  /\ scrolling' = [scrolling EXCEPT !.pc = "simulate", !.top["list"] = MaxOffset]
  /\ UNCHANGED BesideScrolling

\* simulateUserScrolling: wheel events, smooth scroll to the bottom and to the
\* top; 300 ms later the animation has come as far as the host brought it.
simulateUserScrolling ==
  /\ scrolling.pc = "simulate"
  /\ \E pos \in Offsets :
       scrolling' = [scrolling EXCEPT !.pc = "restore", !.top["list"] = pos]
  /\ UNCHANGED BesideScrolling

\* `container.scrollTop = initialScrollTop`
RestorePosition ==
  /\ scrolling.pc = "restore"
  /\ scrolling' = [scrolling EXCEPT !.pc = "render",
                                    !.top["list"] = scrolling.initialScrollTop]
  /\ UNCHANGED BesideScrolling

\* A call of the sweep throws: the catch of expandAndRevealAllCalendars takes
\* over and the scan goes on with the forced rendering.
SweepThrows ==
  /\ scrolling.pc \in {"positions", "simulate"}
  /\ scrolling' = [scrolling EXCEPT !.pc = "render"]
  /\ UNCHANGED BesideScrolling

\* forceContainerRender: container.scrollIntoView({behavior: 'instant'})
\* aligns the list with the viewport by scrolling the page.
forceContainerRender ==
  /\ scrolling.pc = "render"
  /\ scrolling' = [scrolling EXCEPT !.pc = "done",
                                    !.top["page"] = scrolling.alignedAt]
  /\ UNCHANGED BesideScrolling

\* The response is sent; the user may scroll before the next request.
UserScrolls(c, pos) ==
  /\ scrolling.pc \in {"idle", "done"}
  /\ scrolling' = [scrolling EXCEPT !.pc = "idle", !.top[c] = pos]
  /\ UNCHANGED BesideScrolling

InitScrolling ==
  /\ AtRestBesideScrolling
  /\ \E a \in Offsets : scrolling = [NoScrolling EXCEPT !.alignedAt = a]

ScrollingNext ==
  \/ BeginSweep
  \/ rapidScrollThrough
  \/ scrollToSpecificPositions
  \/ simulateUserScrolling
  \/ RestorePosition
  \/ SweepThrows
  \/ forceContainerRender
  \/ \E c \in Scrollers, pos \in Offsets : UserScrolls(c, pos)

ScrollingSpec == InitScrolling /\ [][ScrollingNext]_vars

\* C24: when a forceRefresh request has completed, every scrollable container
\* the reveal pass scrolled has the scroll offset it had before the request,
\* also when an error interrupted the pass.
C24_ScrollRestored ==
  scrolling.pc = "done" => scrolling.top = scrolling.before

\* --------------------------------------------- section toggles of a reveal pass
\* otherCalendarsSelectors and textSearchXPath of collapseOtherCalendarsSection;
\* every one of them requires aria-expanded="true".
otherCalendarsSelectors == <<"label-en", "label-ja", "in-drawer", "button">>
textSearchXPath == <<"text-en", "text-ja">>

\* Whether the 'Other calendars' toggle with markup m matches a selector.
Matches(m, selector) ==
  CASE selector = "label-en"  -> m.label
    [] selector = "in-drawer" -> m.drawer
    [] selector = "button"    -> m.button
    [] selector = "text-en"   -> m.button /\ m.text
    [] OTHER                  -> FALSE

\* isOtherCalendarsToggle(button): its aria-label or its text holds one of the
\* patterns, or it lies in [data-drawer="other-calendars"].
isOtherCalendarsToggle(m) == m.label \/ m.text \/ m.drawer

\* The markups the host may give the toggle.
Markups ==
  {m \in [button : BOOLEAN, label : BOOLEAN, drawer : BOOLEAN, text : BOOLEAN] :
     isOtherCalendarsToggle(m)}

\* What a click makes of aria-expanded.
Clicked(expanded, outcome) == IF outcome = "honoured" THEN ~expanded ELSE expanded

\* expandCalendarSections is called for a sidebar as the user left it.
BeginSections ==
  /\ sections.phase = "idle"
  /\ \E m \in Markups, o \in BOOLEAN, mine \in BOOLEAN :
       sections' = [NoSections EXCEPT !.phase = "collapse", !.markup = m,
                                      !.expanded = [other |-> o, mine |-> mine]]
  /\ UNCHANGED BesideSections

\* Where the collapse phase goes on after a click at selector `at`: `break`
\* leaves the loop over the buttons of this selector, the catch does not.
AfterCollapseClick(at, outcome) == [phase |-> "collapse", at |-> at + 1]

\* One selector of otherCalendarsSelectors: the toggle is clicked if it
\* matches, is expanded and is recognised.
CollapseBySelector ==
  /\ sections.phase = "collapse"
  /\ sections.at <= Len(otherCalendarsSelectors)
  /\ LET hit == /\ sections.expanded.other
                /\ Matches(sections.markup, otherCalendarsSelectors[sections.at])
                /\ isOtherCalendarsToggle(sections.markup) IN
     \E outcome \in ClickOutcomes :
       /\ ~hit => outcome = "honoured"
       /\ LET next == IF hit THEN AfterCollapseClick(sections.at, outcome)
                      ELSE [phase |-> "collapse", at |-> sections.at + 1] IN
          sections' = [sections EXCEPT
            !.expanded.other = IF hit THEN Clicked(@, outcome) ELSE @,
            !.collapseClicks = IF hit THEN @ + 1 ELSE @,
            !.phase = IF next.phase = "collapse" /\ next.at > Len(otherCalendarsSelectors)
                        THEN "xpath" ELSE next.phase,
            !.at = IF next.phase = "collapse" /\ next.at > Len(otherCalendarsSelectors)
                     THEN 1 ELSE next.at]
  /\ UNCHANGED BesideSections

\* One expression of textSearchXPath: the first button with the text that is
\* expanded is clicked; `break` ends the search unless the click throws.
CollapseByXPath ==
  /\ sections.phase = "xpath"
  /\ LET hit == /\ sections.expanded.other
                /\ Matches(sections.markup, textSearchXPath[sections.at]) IN
     \E outcome \in ClickOutcomes :
       /\ ~hit => outcome = "honoured"
       /\ LET done == \/ hit /\ outcome # "raised"
                      \/ sections.at = Len(textSearchXPath) IN
          sections' = [sections EXCEPT
            !.expanded.other = IF hit THEN Clicked(@, outcome) ELSE @,
            !.collapseClicks = IF hit THEN @ + 1 ELSE @,
            !.phase = IF done THEN "expand" ELSE @,
            !.at = IF done THEN 1 ELSE @ + 1]
  /\ UNCHANGED BesideSections

\* The loop over expandableElements: a collapsed toggle near the calendar
\* area is clicked unless isOtherCalendarsToggle recognises it.
ExpandSections ==
  /\ sections.phase = "expand"
  /\ \E outcome \in ClickOutcomes :
       LET targets == {t \in {"mine", "other"} :
                         /\ ~sections.expanded[t]
                         /\ ~(t = "other" /\ isOtherCalendarsToggle(sections.markup))} IN
       /\ targets = {} => outcome = "honoured"
       /\ sections' = [sections EXCEPT
            !.expanded = [t \in {"other", "mine"} |->
                            IF t \in targets THEN Clicked(@[t], outcome) ELSE @[t]],
            !.expandClicked = targets,
            !.phase = "scan"]
  /\ UNCHANGED BesideSections

\* The four discovery strategies have run; the pass is over.
EndSections ==
  /\ sections.phase = "scan"
  /\ sections' = [sections EXCEPT !.phase = "idle"]
  /\ UNCHANGED BesideSections

InitSections ==
  /\ AtRestBesideSections
  /\ sections = NoSections

SectionsNext ==
  \/ BeginSections
  \/ CollapseBySelector
  \/ CollapseByXPath
  \/ ExpandSections
  \/ EndSections

SectionsSpec == InitSections /\ [][SectionsNext]_vars

\* C25: within one pass the 'Other calendars' toggle is clicked to collapse
\* before any expand click, at most once, the expand phase never clicks an
\* element recognised as that toggle, and the section is collapsed when the
\* scan starts.
C25_SectionOrder ==
  /\ sections.collapseClicks <= 1
  /\ sections.phase \in {"collapse", "xpath"} => sections.expandClicked = {}
  /\ "other" \notin sections.expandClicked
  /\ sections.phase = "scan" => ~sections.expanded.other

\* ------------------------------------------------- the scanner's acceptance
\* `textContent.trim().length < 150` of isCalendarItem and
\* `textContent?.trim().length < 200` of findCalendarContainer.
MaxItemText == 150
MaxContainerText == 200

\* A container holds at most MaxControls controls in the model.
MaxControls == 2

\* What isCalendarItem and findCalendarContainer read of a container: the
\* controls in it (itself included), the length of its trimmed textContent,
\* whether it has an aria-label or a title, whether its text, label or title
\* is or holds as a word one of systemItems, holds one of calendarIndicators,
\* whether it lies in a calendar section, has or lies in or holds an element
\* with data-calendarid / data-eventid, and whether its text has a blank line.
Containers ==
  {c \in [controls : 1..MaxControls,
          length : {0, MaxItemText - 1, MaxItemText, MaxContainerText},
          labelled : BOOLEAN, system : BOOLEAN, indicator : BOOLEAN,
          inSection : BOOLEAN, attributes : BOOLEAN, blankLine : BOOLEAN] :
     /\ (c.system \/ c.indicator) => (c.length > 0 \/ c.labelled)
     /\ c.blankLine => c.length > 0}

\* The chains of the model: the parent of the control and one ancestor that
\* differs from it in its controls and its text.
Chains ==
  {<<p, [p EXCEPT !.controls = n, !.length = l]>> :
     p \in Containers, n \in 1..MaxControls, l \in {MaxItemText - 1, MaxContainerText}}

\* The four strategies of getCalendarElements and the mutation observer.
Strategies == {"sections", "checkboxes", "sidebar", "patterns", "observer"}

RECURSIVE FirstReasonable(_, _)
\* The index of the first container from i on with hasText and
\* hasReasonableSize, 0 if there is none.
FirstReasonable(chain, i) ==
  IF i > Len(chain) THEN 0
  ELSE IF chain[i].length > 0 /\ chain[i].length < MaxContainerText THEN i
  ELSE FirstReasonable(chain, i + 1)

\* findCalendarContainer(checkbox): the first container with text of
\* reasonable size, else checkbox.parentElement.
findCalendarContainer(chain) ==
  IF FirstReasonable(chain, 1) # 0 THEN FirstReasonable(chain, 1) ELSE 1

\* isCalendarItem(element)
isCalendarItem(c) ==
  LET hasCheckbox == c.controls >= 1
      isValid == \/ c.indicator
                 \/ c.inSection
                 \/ c.attributes
                 \/ (c.length > 0 /\ c.length < MaxItemText /\ ~c.blankLine) IN
  IF ~hasCheckbox THEN FALSE
  ELSE IF c.length = 0 /\ ~c.labelled THEN FALSE
  ELSE IF c.system THEN FALSE
  ELSE isValid

\* A strategy comes across a control and looks up its container.
Propose(strategy, chain) ==
  /\ candidate.strategy = "none"
  /\ candidate' = [strategy |-> strategy, chain |-> chain,
                   container |-> findCalendarContainer(chain), accepted |-> "unread"]
  /\ UNCHANGED BesideCandidate

\* `if (container && this.isCalendarItem(container)) elements.add(container)`
Judge ==
  /\ candidate.strategy # "none"
  /\ candidate.accepted = "unread"
  /\ candidate' = [candidate EXCEPT
                     !.accepted = Str(isCalendarItem(candidate.chain[candidate.container]))]
  /\ UNCHANGED BesideCandidate

\* The strategy goes on to the next control.
NextControl ==
  /\ candidate.accepted # "unread"
  /\ candidate' = NoCandidate
  /\ UNCHANGED BesideCandidate

InitCandidate ==
  /\ AtRestBesideCandidate
  /\ candidate = NoCandidate

CandidateNext ==
  \/ \E strategy \in Strategies, chain \in Chains : Propose(strategy, chain)
  \/ Judge
  \/ NextControl

CandidateSpec == InitCandidate /\ [][CandidateNext]_vars

\* C26: a container is accepted only if it holds exactly one control, has
\* non-empty text within the length bound and is no denylisted system item;
\* a container with two or more controls, or with text over the bound, is
\* never accepted, whichever strategy proposed it.
C26_AcceptancePredicate ==
  candidate.accepted = "true"
    => LET c == candidate.chain[candidate.container] IN
       /\ c.controls = 1
       /\ c.length > 0 \/ c.labelled
       /\ c.length < MaxItemText
       /\ ~c.system

\* ------------------------------------------------------ the id of an item
\* An item is followed over MaxScans scans.
MaxScans == 2

\* The nodes, texts and items the host may render.
Nodes == {NoAttributes, With("data-id", ""), With("data-id", "X"), With("id", "i1")}
Texts == {<<"W", "o", "r", "k">>, <<"W", " ", "&", "k">>, <<"F", "-", "1">>}
Rendered ==
  [attrs : {NoAttributes, With("data-eventid", "E")},
   desc : {<<>>} \cup {<<n>> : n \in Nodes} \cup {<<n, m>> : n \in Nodes, m \in Nodes},
   name : Texts, text : Texts, index : {0, 1}]

\* The host renders an item.
Render(el) ==
  /\ subtree.scans \in {0, MaxScans}
  /\ subtree' = [NoSubtree EXCEPT !.el = el]
  /\ UNCHANGED BesideSubtree

\* A scan derives the id of the item: getCalendarId(element).
ScanId ==
  /\ subtree.scans < MaxScans
  /\ LET id == CalendarId(subtree.el, 1) IN
     subtree' = [subtree EXCEPT !.id = id, !.scans = @ + 1,
                                !.first = IF subtree.scans = 0 THEN id ELSE @]
  /\ UNCHANGED BesideSubtree

InitSubtree ==
  /\ AtRestBesideSubtree
  /\ \E el \in Rendered : subtree = [NoSubtree EXCEPT !.el = el]

SubtreeNext ==
  \/ \E el \in Rendered : Render(el)
  \/ ScanId

SubtreeSpec == InitSubtree /\ [][SubtreeNext]_vars

\* The values of the native identifier attributes that the item or one of
\* its descendants carries.
NativeIds(el) ==
  {n[a] : n \in {el.attrs} \cup {el.desc[i] : i \in 1..Len(el.desc)}, a \in Attributes}
    \ {Null, ""}

\* C27: the id of an item is the value of a native identifier attribute
\* whenever the item or any descendant carries one, and otherwise the id
\* generated from the normalized name, the truncated normalized text and the
\* sibling index; it is the same on every scan of the unchanged item.
C27_IdDerivation ==
  subtree.scans > 0
    => /\ IF NativeIds(subtree.el) # {}
            THEN subtree.id \in NativeIds(subtree.el)
            ELSE subtree.id = generatedId(subtree.el)
       /\ subtree.id = subtree.first

\* ------------------------------------------------- a page that is not the host
\* The content script runs in a tab of Google Calendar or was injected into
\* a tab whose URL holds 'calendar.google.com' while its hostname does not
\* (TabUtils and the background script select tabs by tab.url.includes);
\* such a page has checkboxes of its own or none.
InitAnyTab ==
  /\ isCalendarPage \in BOOLEAN
  /\ AtRestButIsCalendarPage
  /\ EngineConstructed
  /\ groups = GroupIds
  /\ budget = Unlimited
  /\ settle = NoSettle
  /\ session = NoSession
  /\ lastScan = NoScan

SpecAnyTab == InitAnyTab /\ [][Next]_vars

\* A step of the engine: of a request or of a verification timer.
EngineStep == cur # NoReq \/ cur' # NoReq \/ timers' # timers

\* C28: when the document is not the host calendar page the engine does not
\* operate: no request scans the tree, changes the state of a control, or
\* changes the active group or the snapshot.
C28_NotOnHostPage ==
  [][(~isCalendarPage /\ EngineStep)
       => /\ vis' = vis
          /\ currentActiveGroup' = currentActiveGroup
          /\ originalCalendarStates' = originalCalendarStates
          /\ ~(cur.pc = "scan" /\ cur'.pc # "scan")]_vars

\* --------------------------------------------- TabUtils.sendMessageToContent
\* `const maxRetries = 5`
maxRetries == 5

\* chrome.runtime.lastError of a send: none, 'Could not establish connection.
\* Receiving end does not exist.' without a listener in the tab, or another
\* error (the message port closed before a response was received).
SendOutcomes(listening) == IF listening THEN {"none", "port closed"} ELSE {"no connection"}

\* Mutant: the last attempt's error is not thrown at the last attempt.
giveUp_Late(attempt) == attempt > maxRetries

\* `if (attempt === maxRetries) throw error`
giveUp(attempt) == attempt = maxRetries

\* The options page calls sendMessageToContent(tabId, message).
Call ==
  /\ channel.pc \in {"idle", "returned", "raised"}
  /\ channel' = [NoChannel EXCEPT !.pc = "send", !.listening = channel.listening]
  /\ UNCHANGED BesideChannel

\* chrome.tabs.sendMessage and its callback: the response is returned, or
\* the catch block throws at the last attempt and waits retryDelay otherwise.
sendMessage ==
  /\ channel.pc = "send"
  /\ \E e \in SendOutcomes(channel.listening) :
       channel' = [channel EXCEPT
                     !.sends = @ + 1,
                     !.error = e,
                     !.pc = IF e = "none" THEN "returned"
                            ELSE IF giveUp(channel.attempt) THEN "raised"
                            ELSE "wait"]
  /\ UNCHANGED BesideChannel

\* After retryDelay: re-injection if the error reports that no connection
\* could be established, else the next attempt.
Retry ==
  /\ channel.pc = "wait"
  /\ channel' = [channel EXCEPT
                   !.pc = IF channel.error = "no connection" THEN "inject"
                          ELSE IF channel.attempt + 1 <= maxRetries THEN "send"
                          ELSE "returned",
                   !.attempt = IF channel.error = "no connection" THEN @ ELSE @ + 1]
  /\ UNCHANGED BesideChannel

\* chrome.scripting.executeScript({files: ['content.js']}) in its try/catch.
executeScript(ok) ==
  /\ channel.pc = "inject"
  /\ channel' = [channel EXCEPT
                   !.injections = @ + 1,
                   !.injectFailed = @ \/ ~ok,
                   !.listening = @ \/ ok,
                   !.pc = IF channel.attempt + 1 <= maxRetries THEN "send" ELSE "returned",
                   !.attempt = @ + 1]
  /\ UNCHANGED BesideChannel

\* The tab loads Google Calendar (the manifest injects the content script),
\* or it is reloaded or navigates away.
TabChanges ==
  /\ channel' = [channel EXCEPT !.listening = ~@]
  /\ UNCHANGED BesideChannel

InitChannel ==
  /\ AtRestBesideChannel
  /\ channel = NoChannel

ChannelNext ==
  \/ Call
  \/ sendMessage
  \/ Retry
  \/ \E ok \in BOOLEAN : executeScript(ok)
  \/ TabChanges

ChannelSpec == InitChannel /\ [][ChannelNext]_vars

\* C29: sendMessageToContent sends at most 5 times for one message, returns
\* the response of the first attempt that succeeds without sending again,
\* raises the error of the 5th attempt when that one fails too, re-injects
\* the content script only between attempts and only after a failure that
\* reports that no connection could be established, and goes on with the
\* remaining attempts after a failed re-injection.
C29_RetryBounded ==
  /\ [](channel.sends <= maxRetries)
  /\ [](channel.pc = "returned" => channel.error = "none")
  /\ [](channel.pc = "raised" => channel.sends = maxRetries /\ channel.error # "none")
  /\ [][channel.pc \in {"returned", "raised"}
          => (channel'.sends = channel.sends \/ channel'.sends = 0)]_vars
  /\ [][channel'.injections > channel.injections
          => /\ channel.error = "no connection"
             /\ channel.sends \in 1..(maxRetries - 1)
             /\ channel'.pc = "send"
             /\ channel'.sends = channel.sends]_vars

\* All five attempts failed and a re-injection in between failed as well.
C29_Witness ==
  /\ channel.pc = "raised" /\ channel.sends = maxRetries
  /\ channel.injectFailed /\ channel.injections > 1

\* ------------------------------------------------ the groups of the options page
\* `groupName.length > 50` of validateForm.
MaxNameLength == 50

\* Date.now() is followed up to MaxNow saves; generateGroupId draws from
\* NewIds.
MaxNow == 2
NewIds == {"n1", "n2"}

\* What the user may type as a group name, and the calendars they may tick.
Work == <<"W", "o", "r", "k">>
FormNames ==
  {<<>>, <<" ">>, Work, <<"w", "o", "r", "k", " ">>, <<"F", "a", "m">>,
   [i \in 1..(MaxNameLength + 1) |-> "a"]}
FormCalendars == {{}, {"A"}, {"A", "B"}}

RECURSIVE TrimStart(_)
TrimStart(s) == IF s # <<>> /\ Head(s) = " " THEN TrimStart(Tail(s)) ELSE s
RECURSIVE TrimEnd(_)
TrimEnd(s) ==
  IF s # <<>> /\ s[Len(s)] = " " THEN TrimEnd(SubSeq(s, 1, Len(s) - 1)) ELSE s

\* String.prototype.trim and toLowerCase on a name.
Trim(s) == TrimEnd(TrimStart(s))
LowerCase(s) == [i \in 1..Len(s) |-> toLowerCase(s[i])]

\* validateForm(): the trimmed name is non-empty, at most 50 characters long
\* and, ignoring case, not the name of another group; a calendar is ticked.
validateForm(st, name, calendars) ==
  LET groupName == Trim(name)
      existingNames == {LowerCase(st.groups[id].name) :
                          id \in DOMAIN st.groups \ {st.currentEditingGroupId}} IN
  /\ groupName # <<>>
  /\ Len(groupName) <= MaxNameLength
  /\ LowerCase(groupName) \notin existingNames
  /\ calendars # {}

\* `{ ...a, ...b }`: the entries of b override those of a.
Spread(a, b) ==
  [id \in DOMAIN a \cup DOMAIN b |-> IF id \in DOMAIN b THEN b[id] ELSE a[id]]
Without(a, id) == [k \in DOMAIN a \ {id} |-> a[k]]

\* showAddGroupModal
showAddGroupModal ==
  /\ store.currentEditingGroupId # Null
  /\ store' = [store EXCEPT !.currentEditingGroupId = Null]
  /\ UNCHANGED BesideStore

\* showEditGroupModal(groupId) / showDeleteConfirmation(groupId)
showEditGroupModal(groupId) ==
  /\ groupId \in DOMAIN store.groups
  /\ store.currentEditingGroupId # groupId
  /\ store' = [store EXCEPT !.currentEditingGroupId = groupId]
  /\ UNCHANGED BesideStore

\* handleSaveGroup: a valid form is stored under the edited id or a new one;
\* createdAt is kept when editing; closeGroupModal ends the editing.
handleSaveGroup(name, calendars, newId) ==
  /\ store.now < MaxNow
  /\ validateForm(store, name, calendars)
  /\ newId \notin DOMAIN store.groups
  /\ LET editing == store.currentEditingGroupId
         groupId == IF editing # Null THEN editing ELSE newId
         groupData == [name |-> Trim(name), calendars |-> calendars,
                       createdAt |-> IF editing # Null
                                       THEN store.groups[editing].createdAt
                                       ELSE store.now] IN
     store' = [groups |-> Spread(store.groups, [id \in {groupId} |-> groupData]),
               currentEditingGroupId |-> Null, now |-> store.now + 1]
  /\ UNCHANGED BesideStore

\* handleDeleteGroup
handleDeleteGroup ==
  /\ store.currentEditingGroupId # Null
  /\ store' = [store EXCEPT !.groups = Without(@, store.currentEditingGroupId),
                            !.currentEditingGroupId = Null]
  /\ UNCHANGED BesideStore

\* The settings files of the model: a file exported on another device, with
\* a group named 'work', and one whose group has no name and no calendars.
SettingsFiles ==
  {[id \in {"x1"} |-> [name |-> <<"w", "o", "r", "k">>, calendars |-> {"B"}, createdAt |-> 0]],
   [id \in {"x1"} |-> [name |-> <<>>, calendars |-> {}, createdAt |-> 0]]}

\* handleImportSettings: `this.groups = { ...this.groups, ...settings.groups }`
handleImportSettings(settings) ==
  /\ store' = [store EXCEPT !.groups = Spread(@, settings)]
  /\ store' # store
  /\ UNCHANGED BesideStore

InitStore ==
  /\ AtRestBesideStore
  /\ store = NoStore

StoreNext ==
  \/ showAddGroupModal
  \/ \E groupId \in NewIds \cup {"x1"} : showEditGroupModal(groupId)
  \/ \E name \in FormNames, calendars \in FormCalendars, newId \in NewIds :
       handleSaveGroup(name, calendars, newId)
  \/ handleDeleteGroup
  \/ \E settings \in SettingsFiles : handleImportSettings(settings)

StoreSpec == InitStore /\ [][StoreNext]_vars

\* C30: after any sequence of create, edit, delete and import no two stored
\* groups have names that are equal ignoring case, every stored group has a
\* non-empty name of at most 50 characters and at least one calendar id, and
\* editing a group keeps its id and createdAt.
C30_StoreInvariant ==
  /\ [](\A a \in DOMAIN store.groups, b \in DOMAIN store.groups :
          a # b => LowerCase(store.groups[a].name) # LowerCase(store.groups[b].name))
  /\ [](\A a \in DOMAIN store.groups :
          /\ store.groups[a].name # <<>>
          /\ Len(store.groups[a].name) <= MaxNameLength
          /\ store.groups[a].calendars # {})
  /\ [][(store.currentEditingGroupId # Null /\ store'.now > store.now)
          => /\ DOMAIN store'.groups = DOMAIN store.groups
             /\ store'.groups[store.currentEditingGroupId].createdAt
                  = store.groups[store.currentEditingGroupId].createdAt]_vars

====
